---- MODULE Spec2Model ----
(***************************************************************************)
(* Model of the EPV valuation engine (epv_valuation_model): the valuation  *)
(* chain of epv_calculator.py as orchestrated by main.run_epv_valuation,   *)
(* and the risk analysis of risk_analyzer.py.                              *)
(*                                                                         *)
(* Numbers.  A float is modelled by the exact rational it stands for, a    *)
(* pair <<n, d>> with d > 0 in lowest terms.  NaN is the pair <<0, 0>>,    *)
(* Python's None is the empty tuple.  Revenue cells are never 0 in the     *)
(* inputs, so no operation of the chain produces an infinity.              *)
(*                                                                         *)
(* Statements.  A pandas DataFrame is a record [columns, rows]: columns is *)
(* the tuple of year labels in column order, rows maps each line item of   *)
(* the index to its tuple of cells, one per column.                        *)
(***************************************************************************)
EXTENDS Integers, Sequences, FiniteSets, TLC

VARIABLES
    raw_data,           \* the arguments of process_financial_data
    errors,             \* processed_data["errors"]
    manager,            \* the ConfigManager: its configuration and last update
    income_statement,   \* processed_data["income_statement"] (is_proc)
    balance_sheet,      \* processed_data["balance_sheet"] (bs_proc)
    cash_flow,          \* processed_data["cash_flow"] (cf_proc)
    stock_details,      \* processed_data["stock_details"] (details_proc)
    risk_free_rate,     \* the rate run_epv_valuation obtained
    risk_args,          \* the arguments the risk analysis is called with
    pc,                 \* position of run_epv_valuation
    executed,           \* the calls made so far, in order
    vals,               \* the locals of run_epv_valuation
    result,             \* what run_epv_valuation returned
    sensitivity_output, \* the dict run_sensitivity_analysis returned
    mc,                 \* the locals of run_monte_carlo_simulation
    run,                \* number of the current run of the chain
    first_result,       \* the outcome of the first run of the chain
    probe               \* arguments and results of direct calls of calculate_epv

vars == <<raw_data, errors, manager, income_statement, balance_sheet, cash_flow, stock_details,
          risk_free_rate, risk_args, pc, executed, vals, result, sensitivity_output,
          mc, run, first_result, probe>>

----------------------------------------------------------------------------
(* Rational arithmetic *)

NaN == <<0, 0>>
None == <<>>

AbsInt(n) == IF n < 0 THEN -n ELSE n

RECURSIVE GCD(_, _)
GCD(a, b) == IF b = 0 THEN a ELSE GCD(b, a % b)

\* The rational n/d (d # 0) in lowest terms with a positive denominator.
Rat(n, d) ==
    LET s == IF d < 0 THEN -1 ELSE 1
        g == GCD(AbsInt(n), AbsInt(d))
    IN  <<(s * n) \div g, (s * d) \div g>>

Num(n) == <<n, 1>>
Zero == <<0, 1>>
One == <<1, 1>>

\* pd.isna / pd.notna on a scalar: None and NaN are both missing.
isna(x) == x = NaN \/ x = None
notna(x) == ~isna(x)

Add(x, y) == Rat(x[1] * y[2] + y[1] * x[2], x[2] * y[2])
Sub(x, y) == Rat(x[1] * y[2] - y[1] * x[2], x[2] * y[2])
Mul(x, y) == Rat(x[1] * y[1], x[2] * y[2])
Div(x, y) == Rat(x[1] * y[2], x[2] * y[1])
Lt(x, y) == x[1] * y[2] < y[1] * x[2]
Le(x, y) == x[1] * y[2] <= y[1] * x[2]
Abs(x) == <<AbsInt(x[1]), x[2]>>

\* Python's max(a, b) and min(a, b) on two numbers: the first argument unless
\* the second is strictly greater (smaller).
PyMax(a, b) == IF Lt(a, b) THEN b ELSE a
PyMin(a, b) == IF Lt(b, a) THEN b ELSE a

\* Arithmetic on cells: NaN propagates.
CellDiv(x, y) == IF x = NaN \/ y = NaN THEN NaN ELSE Div(x, y)

RECURSIVE SumSeq(_)
SumSeq(s) == IF s = <<>> THEN Zero ELSE Add(Head(s), SumSeq(Tail(s)))

\* np.mean of a non-empty list of numbers.
Mean(s) == Div(SumSeq(s), Num(Len(s)))

RECURSIVE DropNaN(_)
DropNaN(s) ==
    IF s = <<>> THEN <<>>
    ELSE IF Head(s) = NaN THEN DropNaN(Tail(s))
    ELSE <<Head(s)>> \o DropNaN(Tail(s))

\* Series.mean(skipna=True): NaN when no cell is present.
MeanSkipNa(s) == IF DropNaN(s) = <<>> THEN NaN ELSE Mean(DropNaN(s))

\* abs() of a float that may be NaN.
AbsCell(x) == IF x = NaN THEN NaN ELSE Abs(x)

MinInt(a, b) == IF a < b THEN a ELSE b

\* s[:n]
Take(s, n) == SubSeq(s, 1, MinInt(n, Len(s)))

----------------------------------------------------------------------------
(* config.py *)

DEFAULT_NORMALIZATION_YEARS == 7
DEFAULT_WACC_NORMALIZATION_YEARS == 5
EQUITY_RISK_PREMIUM == Rat(55, 1000)
DEBT_RISK_PREMIUM == Rat(2, 100)
DEFAULT_EFFECTIVE_TAX_RATE == Rat(21, 100)
MIN_EFFECTIVE_TAX_RATE == Rat(5, 100)
MAX_EFFECTIVE_TAX_RATE == Rat(40, 100)
MIN_PRETAX_COST_OF_DEBT == Rat(5, 1000)
MAX_PRETAX_COST_OF_DEBT == Rat(20, 100)
DEFAULT_BETA == Num(1)
DEFAULT_RISK_FREE_RATE == Rat(4, 100)
SENSITIVITY_RANGE_PERCENT == Rat(20, 100)
SENSITIVITY_STEPS == 5

S_REVENUE == "Total Revenue"
S_OPERATING_INCOME == "Operating Income"
S_INTEREST_EXPENSE == "Interest Expense"
S_PRETAX_INCOME == "Pretax Income"
S_TAX_PROVISION == "Tax Provision"
S_GROSS_PPE == "Gross PPE"
S_NET_PPE == "Net PPE"
S_CASH_EQUIVALENTS == "Cash And Cash Equivalents"
S_SHORT_TERM_INVESTMENTS == "Short Term Investments"
S_TOTAL_DEBT == "Total Debt"
S_SHORT_LONG_TERM_DEBT == "Short Long Term Debt"
S_LONG_TERM_DEBT == "Long Term Debt"
S_PREFERRED_STOCK_VALUE == "Preferred Stock"
S_NONCONTROLLING_INTEREST == "Noncontrolling Interest"
S_TOTAL_STOCKHOLDER_EQUITY == "Total Stockholder Equity"
S_NET_TANGIBLE_ASSETS == "Net Tangible Assets"
S_CAPEX == "Capital Expenditures"
S_DEPRECIATION_CF == "Depreciation"

----------------------------------------------------------------------------
(* DataFrame access *)

\* item in df.index
HasRow(df, item) == item \in DOMAIN df.rows

\* df.empty: no rows or no columns
IsEmpty(df) == DOMAIN df.rows = {} \/ df.columns = <<>>

\* df.iloc[:, :n]
FirstColumns(df, n) ==
    [columns |-> Take(df.columns, n),
     rows |-> [r \in DOMAIN df.rows |-> Take(df.rows[r], n)]]

\* df.iloc[:, 0].get(item, default) followed by the NaN test of the caller:
\* the cell of the most recent year, or 0 when the row is absent or the cell NaN.
LatestOrZero(df, item) ==
    IF HasRow(df, item) /\ df.rows[item][1] # NaN THEN df.rows[item][1] ELSE Zero

\* item in most_recent.index and pd.notna(most_recent.loc[item])
LatestPresent(df, item) == HasRow(df, item) /\ df.rows[item][1] # NaN

\* The set of the labels of a column index.
ColumnSet(df) == {df.columns[i] : i \in 1..Len(df.columns)}

\* The position of year y in the columns of df.
ColumnOf(df, y) == CHOOSE i \in 1..Len(df.columns) : df.columns[i] = y

RECURSIVE SortDescending(_)
SortDescending(S) ==
    IF S = {} THEN <<>>
    ELSE LET m == CHOOSE x \in S : \A y \in S : y <= x
         IN  <<m>> \o SortDescending(S \ {m})

\* df[common_cols].sort_index(axis=1, ascending=False)
SelectSorted(df, common_cols) ==
    LET cols == SortDescending(common_cols)
    IN  [columns |-> cols,
         rows |-> [r \in DOMAIN df.rows |->
                     [i \in 1..Len(cols) |-> df.rows[r][ColumnOf(df, cols[i])]]]]

----------------------------------------------------------------------------
(* epv_calculator.py *)

\* Mutant: every year's operating income is divided by the latest revenue.
operating_margins_on_latest_revenue(relevant_years_df) ==
    [i \in 1..Len(relevant_years_df.columns) |->
        CellDiv(relevant_years_df.rows[S_OPERATING_INCOME][i],
                relevant_years_df.rows[S_REVENUE][1])]

\* operating_margins = op_income / revenue over the window
operating_margins(relevant_years_df) ==
    [i \in 1..Len(relevant_years_df.columns) |->
        CellDiv(relevant_years_df.rows[S_OPERATING_INCOME][i],
                relevant_years_df.rows[S_REVENUE][i])]

\* Mutant: a statement without an operating-income row is read as a row of zeros.
calculate_normalized_ebit_zero_fill(income_statement_, num_years) ==
    IF ~HasRow(income_statement_, S_REVENUE) \/ IsEmpty(income_statement_) THEN None
    ELSE LET filled == [income_statement_ EXCEPT !.rows =
                           IF HasRow(income_statement_, S_OPERATING_INCOME) THEN @
                           ELSE (S_OPERATING_INCOME :>
                                    [i \in 1..Len(income_statement_.columns) |-> Zero]) @@ @]
             relevant_years_df == FirstColumns(filled, num_years)
             average_operating_margin == MeanSkipNa(operating_margins(relevant_years_df))
             latest_revenue == relevant_years_df.rows[S_REVENUE][1]
         IN  IF average_operating_margin = NaN \/ latest_revenue = NaN THEN None
             ELSE <<Mul(latest_revenue, average_operating_margin), average_operating_margin>>

\* Mutant: the margin is averaged over all the years of the statement.
calculate_normalized_ebit_all_years(income_statement_, num_years) ==
    IF ~HasRow(income_statement_, S_REVENUE) \/ ~HasRow(income_statement_, S_OPERATING_INCOME)
    THEN None
    ELSE IF IsEmpty(income_statement_) THEN None
    ELSE LET average_operating_margin == MeanSkipNa(operating_margins(income_statement_))
             latest_revenue == income_statement_.rows[S_REVENUE][1]
         IN  IF average_operating_margin = NaN THEN None
             ELSE IF latest_revenue = NaN THEN None
             ELSE <<Mul(latest_revenue, average_operating_margin), average_operating_margin>>

\* Returns None or <<normalized_ebit, average_operating_margin>>.
calculate_normalized_ebit(income_statement_, num_years) ==
    IF ~HasRow(income_statement_, S_REVENUE) \/ ~HasRow(income_statement_, S_OPERATING_INCOME)
    THEN None
    ELSE IF IsEmpty(income_statement_) THEN None
    ELSE LET relevant_years_df == FirstColumns(income_statement_, num_years)
             average_operating_margin == MeanSkipNa(operating_margins(relevant_years_df))
             latest_revenue == relevant_years_df.rows[S_REVENUE][1]
         IN  IF average_operating_margin = NaN THEN None
             ELSE IF latest_revenue = NaN THEN None
             ELSE <<Mul(latest_revenue, average_operating_margin), average_operating_margin>>

\* abs(cf.loc[S_DEPRECIATION_CF].iloc[:num_years].mean(skipna=True))
avg_depreciation(cf, num_years) ==
    AbsCell(MeanSkipNa(Take(cf.rows[S_DEPRECIATION_CF], num_years)))

\* The PPE/Sales ratios of the first loop: PPE[t-1] / sales[t].
RECURSIVE ppe_div_sales_ratios(_, _, _, _)
ppe_div_sales_ratios(sales_history, ppe_history, i, n) ==
    IF i > n THEN <<>>
    ELSE LET sales_t == sales_history[i]
             ppe_t_minus_1 == ppe_history[i + 1]
             rest == ppe_div_sales_ratios(sales_history, ppe_history, i + 1, n)
         IN  IF sales_t # NaN /\ sales_t # Zero /\ ppe_t_minus_1 # NaN
             THEN <<Div(ppe_t_minus_1, sales_t)>> \o rest
             ELSE rest

\* The per-year estimates of the second loop: |capex| - avg ratio * sales growth.
RECURSIVE maintenance_capex_values(_, _, _, _, _)
maintenance_capex_values(sales_history, total_capex_history, avg_ppe_div_sales, i, n) ==
    IF i > n THEN <<>>
    ELSE LET sales_current_year == sales_history[i]
             sales_previous_year == sales_history[i + 1]
             current_total_capex == total_capex_history[i]
             rest == maintenance_capex_values(sales_history, total_capex_history,
                                              avg_ppe_div_sales, i + 1, n)
         IN  IF sales_current_year = NaN \/ sales_previous_year = NaN
                \/ current_total_capex = NaN
             THEN rest
             ELSE <<Sub(Abs(current_total_capex),
                        Mul(avg_ppe_div_sales,
                            Sub(sales_current_year, sales_previous_year)))>> \o rest

\* The three-way minimum of the loop ranges; a negative range is empty.
Min3(a, b, c) == MinInt(a, MinInt(b, c))

\* Mutant: the average of the per-year estimates is returned without the floor.
final_maint_capex_unfloored(avg_maintenance_capex) == avg_maintenance_capex

\* final_maint_capex = max(0, avg_maintenance_capex)
final_maint_capex(avg_maintenance_capex) == PyMax(Zero, avg_maintenance_capex)

\* Returns None or the estimate.
calculate_maintenance_capex(income_statement_, balance_sheet_, cash_flow_statement, num_years) ==
    IF ~HasRow(income_statement_, S_REVENUE)
       \/ ~(HasRow(balance_sheet_, S_GROSS_PPE) \/ HasRow(balance_sheet_, S_NET_PPE))
       \/ ~HasRow(cash_flow_statement, S_CAPEX)
    THEN None
    ELSE LET ppe_item_to_use ==
                 IF HasRow(balance_sheet_, S_GROSS_PPE) THEN S_GROSS_PPE ELSE S_NET_PPE
             common_cols == ColumnSet(income_statement_) \cap ColumnSet(balance_sheet_)
                                \cap ColumnSet(cash_flow_statement)
         IN  IF Cardinality(common_cols) < 2 THEN None
             ELSE LET is_sorted == SelectSorted(income_statement_, common_cols)
                      bs_sorted == SelectSorted(balance_sheet_, common_cols)
                      cf_sorted == SelectSorted(cash_flow_statement, common_cols)
                      sales_history == Take(is_sorted.rows[S_REVENUE], num_years + 1)
                      ppe_history == Take(bs_sorted.rows[ppe_item_to_use], num_years + 1)
                      total_capex_history == Take(cf_sorted.rows[S_CAPEX], num_years)
                      ratios == ppe_div_sales_ratios(sales_history, ppe_history, 1,
                                    Min3(num_years, Len(sales_history) - 1,
                                         Len(ppe_history) - 1))
                  IN  IF Len(sales_history) < 2 \/ Len(ppe_history) < 1
                         \/ Len(total_capex_history) < 1
                      THEN None
                      ELSE IF ratios = <<>> THEN None
                      ELSE LET values == maintenance_capex_values(
                                   sales_history, total_capex_history, Mean(ratios), 1,
                                   Min3(num_years, Len(sales_history) - 1,
                                        Len(total_capex_history)))
                           IN  IF values = <<>>
                               THEN IF HasRow(cf_sorted, S_DEPRECIATION_CF)
                                       /\ avg_depreciation(cf_sorted, num_years) # NaN
                                    THEN avg_depreciation(cf_sorted, num_years)
                                    ELSE None
                               ELSE final_maint_capex(Mean(values))

\* The per-year rates calculate_nopat collects over the window.
RECURSIVE tax_rates(_, _)
tax_rates(tax_prov_row, pre_tax_inc_row) ==
    IF tax_prov_row = <<>> THEN <<>>
    ELSE LET tax_prov == Head(tax_prov_row)
             pre_tax_inc == Head(pre_tax_inc_row)
             rest == tax_rates(Tail(tax_prov_row), Tail(pre_tax_inc_row))
         IN  IF tax_prov # NaN /\ pre_tax_inc # NaN /\ Lt(Zero, pre_tax_inc)
             THEN <<Div(tax_prov, pre_tax_inc)>> \o rest
             ELSE IF tax_prov # NaN /\ tax_prov = Zero /\ pre_tax_inc # NaN
                     /\ Le(pre_tax_inc, Zero)
             THEN <<Zero>> \o rest
             ELSE rest

\* Mutant: the historical average is used as it is.
clamp_effective_tax_rate_off(rate) == rate

\* max(MIN_EFFECTIVE_TAX_RATE, min(rate, MAX_EFFECTIVE_TAX_RATE))
clamp_effective_tax_rate(rate) ==
    PyMax(MIN_EFFECTIVE_TAX_RATE, PyMin(rate, MAX_EFFECTIVE_TAX_RATE))

\* The effective tax rate calculate_nopat applies (rows present).
effective_tax_rate(income_statement_, num_years) ==
    LET relevant_years_df == FirstColumns(income_statement_, num_years)
        rates == tax_rates(relevant_years_df.rows[S_TAX_PROVISION],
                           relevant_years_df.rows[S_PRETAX_INCOME])
        rate == IF rates = <<>> THEN DEFAULT_EFFECTIVE_TAX_RATE
                ELSE clamp_effective_tax_rate(Mean(rates))
    IN  IF rate = NaN THEN DEFAULT_EFFECTIVE_TAX_RATE ELSE rate

\* Returns None or normalized_ebit * (1 - effective_tax_rate).
calculate_nopat(normalized_ebit, income_statement_, num_years) ==
    IF ~HasRow(income_statement_, S_TAX_PROVISION) \/ ~HasRow(income_statement_, S_PRETAX_INCOME)
    THEN None
    ELSE Mul(normalized_ebit, Sub(One, effective_tax_rate(income_statement_, num_years)))

\* Mutant: the three debt items are tried in the opposite order.
wacc_debt_long_term_first(balance_sheet_) ==
    IF LatestPresent(balance_sheet_, S_LONG_TERM_DEBT)
    THEN balance_sheet_.rows[S_LONG_TERM_DEBT][1]
    ELSE IF LatestPresent(balance_sheet_, S_SHORT_LONG_TERM_DEBT)
    THEN balance_sheet_.rows[S_SHORT_LONG_TERM_DEBT][1]
    ELSE IF LatestPresent(balance_sheet_, S_TOTAL_DEBT)
    THEN balance_sheet_.rows[S_TOTAL_DEBT][1]
    ELSE Zero

\* Mutant: a zero debt figure does not stop the search for a later one.
wacc_debt_skip_zero(balance_sheet_) ==
    IF LatestPresent(balance_sheet_, S_TOTAL_DEBT)
       /\ balance_sheet_.rows[S_TOTAL_DEBT][1] # Zero
    THEN balance_sheet_.rows[S_TOTAL_DEBT][1]
    ELSE IF LatestPresent(balance_sheet_, S_SHORT_LONG_TERM_DEBT)
            /\ balance_sheet_.rows[S_SHORT_LONG_TERM_DEBT][1] # Zero
    THEN balance_sheet_.rows[S_SHORT_LONG_TERM_DEBT][1]
    ELSE IF LatestPresent(balance_sheet_, S_LONG_TERM_DEBT)
    THEN balance_sheet_.rows[S_LONG_TERM_DEBT][1]
    ELSE Zero

\* The debt figure D of calculate_wacc.
wacc_debt(balance_sheet_) ==
    IF LatestPresent(balance_sheet_, S_TOTAL_DEBT)
    THEN balance_sheet_.rows[S_TOTAL_DEBT][1]
    ELSE IF LatestPresent(balance_sheet_, S_SHORT_LONG_TERM_DEBT)
    THEN balance_sheet_.rows[S_SHORT_LONG_TERM_DEBT][1]
    ELSE IF LatestPresent(balance_sheet_, S_LONG_TERM_DEBT)
    THEN balance_sheet_.rows[S_LONG_TERM_DEBT][1]
    ELSE Zero

\* The per-year rates calculate_wacc collects for the cost of debt.
RECURSIVE tax_rates_debt_list(_, _)
tax_rates_debt_list(tax_prov_row, pre_tax_inc_row) ==
    IF tax_prov_row = <<>> THEN <<>>
    ELSE LET tax_prov == Head(tax_prov_row)
             pre_tax_inc == Head(pre_tax_inc_row)
             rest == tax_rates_debt_list(Tail(tax_prov_row), Tail(pre_tax_inc_row))
         IN  IF tax_prov # NaN /\ pre_tax_inc # NaN /\ Lt(Zero, pre_tax_inc)
             THEN <<Div(tax_prov, pre_tax_inc)>> \o rest
             ELSE rest

\* avg_tax_rate_for_debt of calculate_wacc
avg_tax_rate_for_debt(income_statement_, num_years_tax_rate) ==
    IF HasRow(income_statement_, S_TAX_PROVISION) /\ HasRow(income_statement_, S_PRETAX_INCOME)
    THEN LET rates == tax_rates_debt_list(
                 Take(income_statement_.rows[S_TAX_PROVISION], num_years_tax_rate),
                 Take(income_statement_.rows[S_PRETAX_INCOME], num_years_tax_rate))
         IN  IF rates # <<>>
             THEN PyMax(MIN_EFFECTIVE_TAX_RATE, PyMin(Mean(rates), MAX_EFFECTIVE_TAX_RATE))
             ELSE DEFAULT_EFFECTIVE_TAX_RATE
    ELSE DEFAULT_EFFECTIVE_TAX_RATE

\* pre_tax_cost_of_debt of calculate_wacc (D # 0)
pre_tax_cost_of_debt(income_statement_, D, risk_free_rate_, num_years_tax_rate) ==
    LET avg_interest_expense ==
            IF HasRow(income_statement_, S_INTEREST_EXPENSE)
            THEN AbsCell(MeanSkipNa(Take(income_statement_.rows[S_INTEREST_EXPENSE],
                                         num_years_tax_rate)))
            ELSE Zero
    IN  IF avg_interest_expense = NaN \/ D = Zero \/ avg_interest_expense = Zero
        THEN Add(risk_free_rate_, DEBT_RISK_PREMIUM)
        ELSE PyMax(MIN_PRETAX_COST_OF_DEBT,
                   PyMin(Div(avg_interest_expense, D), MAX_PRETAX_COST_OF_DEBT))

\* beta of calculate_wacc: the profile's, or DEFAULT_BETA when None or NaN.
wacc_beta(stock_details_) ==
    IF isna(stock_details_.beta) THEN DEFAULT_BETA ELSE stock_details_.beta

\* Mutant: a market cap of 0 is taken as a market cap.
market_cap_missing_zero_allowed(market_cap) == isna(market_cap)

\* market_cap is None or pd.isna(market_cap) or market_cap == 0
market_cap_missing(market_cap) == isna(market_cap) \/ market_cap = Zero

\* Returns None or the WACC.
calculate_wacc(stock_details_, balance_sheet_, income_statement_, risk_free_rate_, equity_risk_premium, num_years_tax_rate) ==
    LET cost_of_equity == Add(risk_free_rate_, Mul(wacc_beta(stock_details_), equity_risk_premium))
        market_cap == stock_details_.market_cap
    IN  IF market_cap_missing(market_cap) THEN None
        ELSE IF balance_sheet_.columns = <<>> THEN None  \* iloc[:, 0] raises, caught
        ELSE LET E == market_cap
                 D == wacc_debt(balance_sheet_)
             IN  IF D = Zero THEN cost_of_equity
                 ELSE LET cost_of_debt_after_tax ==
                              Mul(pre_tax_cost_of_debt(income_statement_, D, risk_free_rate_,
                                                       num_years_tax_rate),
                                  Sub(One, avg_tax_rate_for_debt(income_statement_,
                                                                 num_years_tax_rate)))
                          V == Add(E, D)
                      IN  IF V = Zero THEN None
                          ELSE Add(Mul(Div(E, V), cost_of_equity),
                                   Mul(Div(D, V), cost_of_debt_after_tax))

\* Returns None or epv_operations = nopat / wacc.
calculate_epv(nopat, wacc, maint_capex) ==
    IF wacc = Zero \/ isna(wacc) THEN None
    ELSE IF isna(nopat) THEN None
    ELSE Div(nopat, wacc)

\* Mutant: only the Total Debt row is read; the other two debt rows are ignored.
epv_equity_total_debt_first_row(balance_sheet_) ==
    IF LatestPresent(balance_sheet_, S_TOTAL_DEBT)
    THEN balance_sheet_.rows[S_TOTAL_DEBT][1]
    ELSE Zero

\* total_debt of calculate_epv_equity
epv_equity_total_debt(balance_sheet_) ==
    IF LatestPresent(balance_sheet_, S_TOTAL_DEBT)
    THEN balance_sheet_.rows[S_TOTAL_DEBT][1]
    ELSE IF LatestPresent(balance_sheet_, S_SHORT_LONG_TERM_DEBT)
    THEN balance_sheet_.rows[S_SHORT_LONG_TERM_DEBT][1]
    ELSE IF LatestPresent(balance_sheet_, S_LONG_TERM_DEBT)
    THEN balance_sheet_.rows[S_LONG_TERM_DEBT][1]
    ELSE Zero

\* Returns None or the EPV of equity.
calculate_epv_equity(epv_operations, balance_sheet_, stock_details_) ==
    IF balance_sheet_.columns = <<>> THEN None  \* iloc[:, 0] raises, caught
    ELSE LET excess_cash_equivalents ==
                 Add(LatestOrZero(balance_sheet_, S_CASH_EQUIVALENTS),
                     LatestOrZero(balance_sheet_, S_SHORT_TERM_INVESTMENTS))
             preferred_stock_bv == LatestOrZero(balance_sheet_, S_PREFERRED_STOCK_VALUE)
             noncontrolling_interest_bv == LatestOrZero(balance_sheet_, S_NONCONTROLLING_INTEREST)
         IN  Sub(Sub(Sub(Add(epv_operations, excess_cash_equivalents),
                         epv_equity_total_debt(balance_sheet_)),
                     preferred_stock_bv),
                 noncontrolling_interest_bv)

\* Mutant: total stockholder equity is not used when net tangible assets are missing.
calculate_asset_value_equity_no_fallback(balance_sheet_) ==
    IF IsEmpty(balance_sheet_) THEN None
    ELSE IF LatestPresent(balance_sheet_, S_NET_TANGIBLE_ASSETS)
    THEN balance_sheet_.rows[S_NET_TANGIBLE_ASSETS][1]
    ELSE None

\* Returns None or the asset value of equity.
calculate_asset_value_equity(balance_sheet_) ==
    IF IsEmpty(balance_sheet_) THEN None
    ELSE IF LatestPresent(balance_sheet_, S_NET_TANGIBLE_ASSETS)
    THEN balance_sheet_.rows[S_NET_TANGIBLE_ASSETS][1]
    ELSE IF LatestPresent(balance_sheet_, S_TOTAL_STOCKHOLDER_EQUITY)
    THEN balance_sheet_.rows[S_TOTAL_STOCKHOLDER_EQUITY][1]
    ELSE None

----------------------------------------------------------------------------
(* risk_analyzer.py: run_sensitivity_analysis *)

\* num_steps after "if num_steps % 2 == 0: num_steps += 1"
odd_steps(num_steps) == IF num_steps % 2 = 0 THEN num_steps + 1 ELSE num_steps

\* np.linspace(start, stop, num)[i] for i in 1..num: start alone when num = 1.
linspace(start, stop, num) ==
    [i \in 1..num |->
        IF num = 1 THEN start
        ELSE Add(start, Mul(Num(i - 1), Div(Sub(stop, start), Num(num - 1))))]

variation_multipliers(sensitivity_range, num_steps) ==
    linspace(Sub(One, sensitivity_range), Add(One, sensitivity_range), odd_steps(num_steps))

\* The integer nearest to x, ties to the even one: the whole percent of f"{v:.0%}".
RoundHalfEven(x) ==
    LET fl == x[1] \div x[2]
        twice == 2 * (x[1] - fl * x[2])
    IN  IF twice < x[2] THEN fl
        ELSE IF twice > x[2] THEN fl + 1
        ELSE IF fl % 2 = 0 THEN fl ELSE fl + 1

\* The 'Variation' label of a row: f"{multiplier-1:.0%}", as its whole percent.
variation_label(multiplier) == RoundHalfEven(Mul(Num(100), Sub(multiplier, One)))

\* EPV Equity of a row: the value, or NaN when the recalculation gave None.
nan_if_none(x) == IF x = None THEN NaN ELSE x

\* The EPV Equity of the WACC row at varied_value.
sensitize_wacc(base_inputs, bs_proc, details_proc, varied_value) ==
    IF Le(varied_value, Zero) THEN NaN
    ELSE LET epv_ops_results ==
                 calculate_epv(base_inputs.nopat_base, varied_value, base_inputs.maint_capex_base)
         IN  IF epv_ops_results # None
             THEN nan_if_none(calculate_epv_equity(epv_ops_results, bs_proc, details_proc))
             ELSE NaN

\* The EPV Equity of the Avg Op Margin row at varied_value.
sensitize_avg_op_margin(base_inputs, is_proc, bs_proc, details_proc, varied_value) ==
    LET latest_revenue == is_proc.rows[S_REVENUE][1]
    IN  IF latest_revenue = NaN THEN NaN  \* NaN propagates to NOPAT, calculate_epv gives None
        ELSE LET temp_normalized_ebit == Mul(latest_revenue, varied_value)
                 temp_nopat == calculate_nopat(temp_normalized_ebit, is_proc,
                                               DEFAULT_NORMALIZATION_YEARS)
             IN  IF temp_nopat = None THEN NaN
                 ELSE LET epv_ops_results ==
                              calculate_epv(temp_nopat, base_inputs.wacc_base,
                                            base_inputs.maint_capex_base)
                      IN  IF epv_ops_results # None
                          THEN nan_if_none(calculate_epv_equity(epv_ops_results, bs_proc,
                                                                details_proc))
                          ELSE NaN

\* Mutant: a WACC step with temp_wacc <= 0 is skipped without a row.
sensitivity_table_skip_invalid(var_name, base_value, base_inputs, is_proc, bs_proc, details_proc, multipliers) ==
    SelectSeq(
        [k \in 1..Len(multipliers) |->
            LET multiplier == multipliers[k]
                varied_value == Mul(base_value, multiplier)
            IN  [Variation |-> variation_label(multiplier),
                 multiplier |-> multiplier,
                 varied_value |-> varied_value,
                 EPV_Equity |->
                     IF var_name = "WACC"
                     THEN sensitize_wacc(base_inputs, bs_proc, details_proc, varied_value)
                     ELSE sensitize_avg_op_margin(base_inputs, is_proc, bs_proc, details_proc,
                                                  varied_value)]],
        LAMBDA row : ~(var_name = "WACC" /\ Le(row.varied_value, Zero)))

\* The table of one sensitized variable: one row per multiplier, in order.
sensitivity_table(var_name, base_value, base_inputs, is_proc, bs_proc, details_proc, multipliers) ==
    [k \in 1..Len(multipliers) |->
        LET multiplier == multipliers[k]
            varied_value == Mul(base_value, multiplier)
        IN  [Variation |-> variation_label(multiplier),
             multiplier |-> multiplier,
             varied_value |-> varied_value,
             EPV_Equity |->
                 IF var_name = "WACC"
                 THEN sensitize_wacc(base_inputs, bs_proc, details_proc, varied_value)
                 ELSE sensitize_avg_op_margin(base_inputs, is_proc, bs_proc, details_proc,
                                              varied_value)]]

\* The dict run_sensitivity_analysis returns for main's two variables.
run_sensitivity_analysis(base_inputs, is_proc, bs_proc, details_proc, wacc_base_value, margin_base_value, sensitivity_range, num_steps) ==
    LET multipliers == variation_multipliers(sensitivity_range, num_steps)
    IN  [WACC |-> sensitivity_table("WACC", wacc_base_value, base_inputs, is_proc, bs_proc,
                                    details_proc, multipliers),
         Avg_Op_Margin |-> sensitivity_table("Avg Op Margin", margin_base_value, base_inputs,
                                             is_proc, bs_proc, details_proc, multipliers)]

----------------------------------------------------------------------------
(* risk_analyzer.py: run_monte_carlo_simulation *)

\* The standard deviates np.random.normal is taken to draw: the mean itself and
\* a draw two standard deviations below it.
NormalDeviates == {Num(0), Num(-2)}

\* The values np.random.normal(mean, std) can return in the model.
normal_samples(mean, std) ==
    IF std = Zero \/ mean = NaN THEN {mean}
    ELSE {Add(mean, Mul(z, std)) : z \in NormalDeviates}

\* The floor of a sampled beta: max(0.1, sampled_beta)
BETA_FLOOR == Rat(1, 10)

\* max(0.1, sampled_beta); max(0.1, nan) is 0.1
floor_sampled_beta(sampled_beta) ==
    IF sampled_beta = NaN THEN BETA_FLOOR ELSE PyMax(BETA_FLOOR, sampled_beta)

\* The values current_params['avg_op_margin'] can take in one iteration.
sampled_op_margins(op_margin_config, base_inputs) ==
    IF op_margin_config.present
    THEN IF op_margin_config.dist = "normal"
         THEN normal_samples(op_margin_config.mean, op_margin_config.std)
         ELSE {op_margin_config.mean}
    ELSE {base_inputs.avg_op_margin_base}

\* The values current_params['beta'] can take in one iteration (mean not None
\* when the distribution is normal).
sampled_betas(beta_config, details_proc) ==
    IF beta_config.present
    THEN IF beta_config.dist = "normal"
         THEN {floor_sampled_beta(s) : s \in normal_samples(beta_config.mean, beta_config.std)}
         ELSE {beta_config.mean}
    ELSE {details_proc.beta}

\* temp_stock_details = details_proc.copy(); temp_stock_details['beta'] = beta
temp_stock_details(details_proc, beta) == [details_proc EXCEPT !.beta = beta]

\* The recalculation of one iteration: None when the iteration is skipped,
\* else the simulated EPV Equity.
mc_recalculate(base_inputs, is_proc, bs_proc, details_proc, risk_free_rate_, avg_op_margin, beta) ==
    LET latest_revenue == is_proc.rows[S_REVENUE][1]
        norm_ebit_sim == IF latest_revenue = NaN THEN NaN ELSE Mul(latest_revenue, avg_op_margin)
        nopat_sim == IF norm_ebit_sim = NaN
                     THEN (IF HasRow(is_proc, S_TAX_PROVISION) /\ HasRow(is_proc, S_PRETAX_INCOME)
                           THEN NaN ELSE None)
                     ELSE calculate_nopat(norm_ebit_sim, is_proc, DEFAULT_NORMALIZATION_YEARS)
    IN  IF nopat_sim = None THEN None
        ELSE LET wacc_sim == calculate_wacc(temp_stock_details(details_proc, beta), bs_proc,
                                            is_proc, risk_free_rate_, EQUITY_RISK_PREMIUM,
                                            DEFAULT_WACC_NORMALIZATION_YEARS)
             IN  IF wacc_sim = None \/ Le(wacc_sim, Zero) THEN None
                 ELSE LET epv_ops_results_sim ==
                              calculate_epv(nopat_sim, wacc_sim, base_inputs.maint_capex_base)
                      IN  IF epv_ops_results_sim = None THEN None
                          ELSE calculate_epv_equity(epv_ops_results_sim, bs_proc, details_proc)

\* The divisor of the progress report: num_simulations // 10
progress_interval(num_simulations) == num_simulations \div 10

----------------------------------------------------------------------------
(* Inputs: the processed statements, the profile and the analysis parameters *)

\* The largest num_simulations and the largest num_steps requested.
MaxSimulations == 10
MaxSteps == 5
\* The largest window (num_years) the functions are called with.
MaxWindow == 8
Windows == 1..MaxWindow

\* A statement from <<item, row>> pairs; a pair with the empty row is left out.
Statement(columns, items) ==
    LET kept == {k \in 1..Len(items) : items[k][2] # <<>>}
    IN  [columns |-> columns,
         rows |-> [r \in {items[k][1] : k \in kept} |->
                     items[CHOOSE k \in kept : items[k][1] = r][2]]]

Years3 == <<2023, 2022, 2021>>
Years8 == <<2023, 2022, 2021, 2020, 2019, 2018, 2017, 2016>>

RevenueRows == {<<Num(1000), Num(900), Num(800)>>, <<NaN, Num(900), Num(800)>>, <<>>}
OperatingIncomeRows == {<<Num(200), Num(180), Num(160)>>, <<Num(-100), Num(180), NaN>>,
                        <<NaN, NaN, NaN>>, <<>>}
\* <<Pretax Income, Tax Provision>>: 21%; above the cap; below the floor (a
\* refund and a loss year without tax); no qualifying year; rows missing;
\* 21% in two years and a loss year without tax between them.
TaxRows == {<<<<Num(100), Num(100), Num(100)>>, <<Num(21), Num(21), Num(21)>>>>,
            <<<<Num(100), Num(-50), Num(100)>>, <<Num(21), Num(0), Num(21)>>>>,
            <<<<Num(100), Num(100), Num(100)>>, <<Num(50), Num(60), NaN>>>>,
            <<<<Num(100), Num(-50), NaN>>, <<Num(-10), Num(0), Num(5)>>>>,
            <<<<Num(-100), NaN, Num(-5)>>, <<Num(10), Num(5), NaN>>>>,
            <<<<Num(100), Num(100), Num(100)>>, <<>>>>}
InterestRows == {<<>>, <<Num(-30), Num(-20), Num(-10)>>, <<NaN, NaN, NaN>>, <<Num(-400), Num(-400), Num(-400)>>}

BaseRevenue == <<Num(1000), Num(900), Num(800)>>
BaseOperatingIncome == <<Num(200), Num(180), Num(160)>>
BaseTax == <<<<Num(100), Num(100), Num(100)>>, <<Num(21), Num(21), Num(21)>>>>

IncomeStatement3(rev, op, tax, interest) ==
    Statement(Years3, <<<<S_REVENUE, rev>>, <<S_OPERATING_INCOME, op>>,
                        <<S_PRETAX_INCOME, tax[1]>>, <<S_TAX_PROVISION, tax[2]>>,
                        <<S_INTEREST_EXPENSE, interest>>>>)

\* Eight years: the 7-year and the 5-year windows cut different years off.
IncomeStatement8 ==
    Statement(Years8,
        <<<<S_REVENUE, <<Num(1000), Num(900), Num(800), Num(700), Num(600), Num(500), Num(400), Num(300)>>>>,
          <<S_OPERATING_INCOME, <<Num(200), Num(180), Num(160), Num(140), Num(120), Num(100), Num(80), Num(0)>>>>,
          <<S_PRETAX_INCOME, <<Num(100), Num(100), Num(100), Num(100), Num(100), Num(100), Num(100), Num(100)>>>>,
          <<S_TAX_PROVISION, <<Num(21), Num(21), Num(21), Num(21), Num(21), Num(42), Num(42), Num(0)>>>>,
          <<S_INTEREST_EXPENSE, <<Num(-30), Num(-30), Num(-30), Num(-30), Num(-30), Num(-90), Num(-90), Num(-90)>>>>>>)

\* <<Total Debt, Short Long Term Debt, Long Term Debt>>
DebtRows == {<<<<>>, <<>>, <<>>>>,
             <<<<Num(500), Num(400), Num(300)>>, <<>>, <<>>>>,
             <<<<Num(0), Num(400), Num(300)>>, <<>>, <<Num(250), Num(250), Num(250)>>>>,
             <<<<NaN, Num(400), Num(300)>>, <<Num(500), Num(500), Num(500)>>, <<Num(250), Num(250), Num(250)>>>>,
             <<<<>>, <<>>, <<Num(250), Num(250), Num(250)>>>>}
\* <<Cash, Short Term Investments, Preferred Stock, Noncontrolling Interest>>
BridgeRows == {<<<<>>, <<>>, <<>>, <<>>>>,
               <<<<Num(100), Num(90), Num(80)>>, <<NaN, Num(10), Num(10)>>, <<Num(20), Num(15), Num(10)>>, <<Num(50), Num(40), Num(30)>>>>}
\* <<Gross PPE, Net PPE>>
PpeRows == {<<<<Num(700), Num(650), Num(600)>>, <<Num(600), Num(550), Num(500)>>>>,
            <<<<>>, <<Num(600), Num(550), Num(500)>>>>,
            <<<<NaN, NaN, NaN>>, <<Num(600), Num(550), Num(500)>>>>,
            <<<<>>, <<>>>>}
\* <<Net Tangible Assets, Total Stockholder Equity>>
AssetRows == {<<<<Num(750), Num(700), Num(650)>>, <<Num(800), Num(700), Num(600)>>>>,
              <<<<NaN, Num(700), Num(650)>>, <<Num(800), Num(700), Num(600)>>>>,
              <<<<>>, <<>>>>}

BaseDebt == <<<<>>, <<>>, <<>>>>
BaseBridge == <<<<>>, <<>>, <<>>, <<>>>>
BasePpe == <<<<Num(700), Num(650), Num(600)>>, <<Num(600), Num(550), Num(500)>>>>
BaseAsset == <<<<Num(750), Num(700), Num(650)>>, <<Num(800), Num(700), Num(600)>>>>

BalanceSheet3(debt, bridge, ppe, asset) ==
    Statement(Years3, <<<<S_TOTAL_DEBT, debt[1]>>, <<S_SHORT_LONG_TERM_DEBT, debt[2]>>,
                        <<S_LONG_TERM_DEBT, debt[3]>>,
                        <<S_CASH_EQUIVALENTS, bridge[1]>>,
                        <<S_SHORT_TERM_INVESTMENTS, bridge[2]>>,
                        <<S_PREFERRED_STOCK_VALUE, bridge[3]>>,
                        <<S_NONCONTROLLING_INTEREST, bridge[4]>>,
                        <<S_GROSS_PPE, ppe[1]>>, <<S_NET_PPE, ppe[2]>>,
                        <<S_NET_TANGIBLE_ASSETS, asset[1]>>,
                        <<S_TOTAL_STOCKHOLDER_EQUITY, asset[2]>>,
                        <<"Total Assets", <<Num(2000), Num(1800), Num(1600)>>>>>>)

\* <<columns, Capital Expenditures, Depreciation>>
CashFlows ==
    {Statement(c[1], <<<<S_CAPEX, c[2]>>, <<S_DEPRECIATION_CF, c[3]>>,
                       <<"Change In Cash", [i \in 1..Len(c[1]) |-> Num(5)]>>>>) :
        c \in {<<Years3, <<Num(-100), Num(-90), Num(-80)>>, <<Num(70), Num(65), Num(60)>>>>,
               <<Years3, <<Num(-10), Num(-90), Num(-80)>>, <<>>>>,
               <<Years3, <<NaN, NaN, NaN>>, <<Num(-70), Num(-65), NaN>>>>,
               <<Years3, <<NaN, NaN, NaN>>, <<NaN, NaN, NaN>>>>,
               <<Years3, <<>>, <<Num(70), Num(65), Num(60)>>>>,
               <<Years3, <<>>, <<>>>>,
               <<<<2023>>, <<Num(-100)>>, <<Num(-70)>>>>}}

BaseCashFlow ==
    Statement(Years3, <<<<S_CAPEX, <<Num(-100), Num(-90), Num(-80)>>>>, <<S_DEPRECIATION_CF, <<Num(70), Num(65), Num(60)>>>>,
                        <<"Change In Cash", <<Num(5), Num(5), Num(5)>>>>>>)

\* -8/11 is the beta at which the cost of equity 0.04 + beta * 0.055 is 0.
Betas == {None, NaN, Num(-1), Rat(-8, 11), Rat(1, 20), Num(1)}
MarketCaps == {None, NaN, Zero, Num(5000), Num(-250)}

StockDetails(beta, market_cap) == [beta |-> beta, market_cap |-> market_cap]
BaseStockDetails == StockDetails(Num(1), Num(5000))

\* One entry of mc_configs, before run_epv_valuation fills in the mean.
McConfig(present, dist, std) == [present |-> present, dist |-> dist, std |-> std]
McStd0 == McConfig(TRUE, "normal", Zero)

\* The parameters of the risk analysis: num_steps of the sensitivity analysis,
\* and the two entries of mc_configs and num_simulations of the simulation.
RiskArgs(num_steps, op_margin, beta, num_simulations) ==
    [num_steps |-> num_steps, avg_op_margin |-> op_margin, beta |-> beta,
     num_simulations |-> num_simulations]
BaseRiskArgs == RiskArgs(SENSITIVITY_STEPS, McStd0, McStd0, MaxSimulations)

Scenario(is, bs, cf, sd, args) == [is |-> is, bs |-> bs, cf |-> cf, sd |-> sd, args |-> args]

BaseIncomeStatement == IncomeStatement3(BaseRevenue, BaseOperatingIncome, BaseTax, <<>>)
BaseBalanceSheet == BalanceSheet3(BaseDebt, BaseBridge, BasePpe, BaseAsset)

\* The scenarios: each group varies some of the inputs around the base case.
NormalizationScenarios ==
    {Scenario(IncomeStatement3(rev, op, tax, <<>>), BaseBalanceSheet, BaseCashFlow,
              BaseStockDetails, BaseRiskArgs) :
        rev \in RevenueRows, op \in OperatingIncomeRows, tax \in TaxRows}

CapitalCostScenarios ==
    {Scenario(IncomeStatement3(BaseRevenue, BaseOperatingIncome, x[1], x[2]),
              BalanceSheet3(x[3], BaseBridge, BasePpe, BaseAsset), BaseCashFlow,
              StockDetails(x[4], x[5]), BaseRiskArgs) :
        x \in TaxRows \X InterestRows \X DebtRows \X Betas \X MarketCaps}

CapexScenarios ==
    {Scenario(IncomeStatement3(rev, BaseOperatingIncome, BaseTax, <<>>),
              BalanceSheet3(BaseDebt, BaseBridge, ppe, BaseAsset), cf,
              BaseStockDetails, BaseRiskArgs) :
        rev \in RevenueRows \ {<<>>}, ppe \in PpeRows, cf \in CashFlows}

EquityScenarios ==
    {Scenario(is, BalanceSheet3(x[1], x[2], BasePpe, x[3]), BaseCashFlow,
              StockDetails(x[4], Num(5000)), BaseRiskArgs) :
        is \in {BaseIncomeStatement, IncomeStatement8},
        x \in DebtRows \X BridgeRows \X AssetRows \X Betas}

McConfigs == {McStd0, McConfig(TRUE, "normal", Rat(1, 2)),
              McConfig(TRUE, "uniform", Rat(1, 2)), McConfig(FALSE, "normal", Zero)}

\* A statement without rows and columns (DataFrame.empty).
EmptyStatement == [columns |-> <<>>, rows |-> <<>>]

IncompleteScenarios ==
    {Scenario(EmptyStatement, BaseBalanceSheet, BaseCashFlow, BaseStockDetails, BaseRiskArgs),
     Scenario(BaseIncomeStatement, EmptyStatement, BaseCashFlow, BaseStockDetails, BaseRiskArgs),
     Scenario(BaseIncomeStatement, BaseBalanceSheet, EmptyStatement, BaseStockDetails,
              BaseRiskArgs)}

\* A distribution np.random.normal draws more than one value from.
IsRandom(config) == config.present /\ config.dist = "normal" /\ config.std # Zero

RiskDebts == {BaseDebt, <<<<Num(500), Num(400), Num(300)>>, <<>>, <<>>>>}

\* The pairs of distributions of which exactly one is random.
RandomConfigs ==
    {d \in McConfigs \X McConfigs : IsRandom(d[1]) # IsRandom(d[2])}

\* A random beta of which one draw gives a WACC <= 0 and the other a WACC > 0:
\* with E = -250 and D = 500 the weights are -1 and 2, the after-tax cost of
\* debt is 0.0474, and the cost of equity is 0.095 at beta 1, 0.0455 at 0.1.
MixedOutcomeScenario ==
    Scenario(BaseIncomeStatement,
             BalanceSheet3(<<<<Num(500), Num(400), Num(300)>>, <<>>, <<>>>>, BaseBridge,
                           BasePpe, BaseAsset),
             BaseCashFlow, StockDetails(Num(1), Num(-250)),
             RiskArgs(SENSITIVITY_STEPS, McStd0, McConfig(TRUE, "normal", Rat(1, 2)),
                      MaxSimulations))

\* The risk analysis called with other arguments than the base ones: the number
\* of steps, the two distributions (at most one of them random), the number of
\* simulations; and the random distributions on the base case.
RiskScenarios ==
    {Scenario(BaseIncomeStatement, BalanceSheet3(x[1], BaseBridge, BasePpe, BaseAsset),
              BaseCashFlow, StockDetails(x[2], Num(5000)), x[3]) :
        x \in RiskDebts \X Betas \X
              ({RiskArgs(n, McStd0, McStd0, MaxSimulations) : n \in 1..MaxSteps}
               \cup {RiskArgs(SENSITIVITY_STEPS, c[1], c[2], MaxSimulations) :
                        c \in {d \in McConfigs \X McConfigs :
                                  ~IsRandom(d[1]) /\ ~IsRandom(d[2])}}
               \cup {RiskArgs(SENSITIVITY_STEPS, McStd0, McStd0, n) : n \in 0..MaxSimulations})}
    \cup
    {Scenario(BaseIncomeStatement, BaseBalanceSheet, BaseCashFlow,
              StockDetails(x[1], Num(5000)),
              RiskArgs(SENSITIVITY_STEPS, x[2][1], x[2][2], MaxSimulations)) :
        x \in {Rat(1, 20), Num(1)} \X RandomConfigs}
    \cup
    {MixedOutcomeScenario}

Scenarios == NormalizationScenarios \cup CapitalCostScenarios \cup CapexScenarios
                 \cup EquityScenarios \cup IncompleteScenarios \cup RiskScenarios

----------------------------------------------------------------------------
(* data_processor.py *)

\* A column label of a raw statement: a pd.Timestamp, or a label that is not a
\* Timestamp (an integer year, as the sample files give).
Timestamp(year, month) == [is_timestamp |-> TRUE, year |-> year, month |-> month]
IntLabel(year) == [is_timestamp |-> FALSE, year |-> year, month |-> 0]

\* A raw cell that is not a number.
Text == <<"n/a">>

\* A raw DataFrame: the column labels, the index labels, and for every index
\* label the tuple of its cells.
RawFrame(columns, index, cells) == [columns |-> columns, index |-> index, cells |-> cells]

\* df.empty
RawIsEmpty(df) == df.columns = <<>> \/ df.index = <<>>

\* idx.lower().replace(" ", "").replace("/", "").replace("(", "").replace(")", "")
index_key(idx) ==
    CASE idx = "Total Revenue" -> "totalrevenue"
      [] idx = "Revenue" -> "revenue"
      [] idx = "total revenue" -> "totalrevenue"
      [] idx = "Operating Income" -> "operatingincome"
      [] idx = "Income Before Tax" -> "incomebeforetax"
      [] idx = "Income Tax Expense" -> "incometaxexpense"
      [] idx = "Total Debt" -> "totaldebt"
      [] idx = "Gross Property Plant And Equipment" -> "grosspropertyplantandequipment"
      [] idx = "Cash" -> "cash"
      [] idx = "Capital Expenditures" -> "capitalexpenditures"
      [] idx = "Depreciation And Amortization" -> "depreciationandamortization"
      [] idx = "Depreciation" -> "depreciation"
      [] OTHER -> "other"

\* financial_item_names.s_depreciation_amortization_is
S_DEPRECIATION_AMORTIZATION_IS == "Depreciation And Amortization"

\* The entries of the three mappings for the keys above.
INCOME_STATEMENT_MAPPING ==
    ("totalrevenue" :> S_REVENUE) @@ ("revenue" :> S_REVENUE)
        @@ ("operatingincome" :> S_OPERATING_INCOME)
        @@ ("incomebeforetax" :> S_PRETAX_INCOME)
        @@ ("incometaxexpense" :> S_TAX_PROVISION)
        @@ ("depreciationandamortization" :> S_DEPRECIATION_AMORTIZATION_IS)
        @@ ("depreciation" :> S_DEPRECIATION_AMORTIZATION_IS)

BALANCE_SHEET_MAPPING ==
    ("totaldebt" :> S_TOTAL_DEBT)
        @@ ("grosspropertyplantandequipment" :> S_GROSS_PPE)
        @@ ("cash" :> S_CASH_EQUIVALENTS)

CASH_FLOW_MAPPING ==
    ("capitalexpenditures" :> S_CAPEX)
        @@ ("depreciation" :> S_DEPRECIATION_CF)
        @@ ("depreciationandamortization" :> S_DEPRECIATION_CF)

\* original_index_lookup[key]: the last index label with that key.
original_index_lookup(index, key) ==
    LET last == CHOOSE i \in 1..Len(index) :
                    /\ index_key(index[i]) = key
                    /\ \A j \in 1..Len(index) : index_key(index[j]) = key => j <= i
    IN  index[last]

\* The index of df.rename(index=standardized_index_map)
standardize_df_index(index, mapping) ==
    [i \in 1..Len(index) |->
        LET key == index_key(index[i])
        IN  IF key \in DOMAIN mapping /\ original_index_lookup(index, key) = index[i]
            THEN mapping[key]
            ELSE index[i]]

\* new_columns[col]: col.year for a Timestamp (the month is dropped); a label
\* that is not a Timestamp is kept, and is its year field here.
year_of_column(col) == col.year

\* The column labels after df.rename(columns=new_columns)
renamed_columns(columns) == [i \in 1..Len(columns) |-> year_of_column(columns[i])]

\* Mutant: a column label that occurs twice is converted like any other.
to_numeric_raises_never(columns) == FALSE

\* df[col] = pd.to_numeric(df[col], errors='coerce') raises TypeError when the
\* label col occurs twice: df[col] is then a DataFrame, not a Series.
to_numeric_raises(columns) ==
    \E i, j \in 1..Len(columns) : i # j /\ columns[i] = columns[j]

\* pd.to_numeric(cell, errors='coerce')
to_numeric(cell) == IF cell = Text THEN NaN ELSE cell

\* The positions of the columns in the order of
\* sort_index(axis=1, ascending=False).
RECURSIVE descending_order(_, _)
descending_order(columns, remaining) ==
    IF remaining = {} THEN <<>>
    ELSE LET p == CHOOSE p \in remaining :
                      \A q \in remaining :
                          \/ columns[q] < columns[p]
                          \/ (columns[q] = columns[p] /\ p <= q)
         IN  <<p>> \o descending_order(columns, remaining \ {p})

\* _standardize_df_index, _clean_financial_dataframe and the removal of the
\* duplicated index labels (the first one is kept), for a frame that is not
\* empty and whose conversion does not raise.
processed_statement(df, mapping) ==
    LET index == standardize_df_index(df.index, mapping)
        columns == renamed_columns(df.columns)
        order == descending_order(columns, 1..Len(columns))
        first(item) == CHOOSE i \in 1..Len(index) :
                           index[i] = item /\ \A j \in 1..Len(index) : index[j] = item => i <= j
    IN  [columns |-> [k \in 1..Len(order) |-> columns[order[k]]],
         rows |-> [item \in {index[i] : i \in 1..Len(index)} |->
                     [k \in 1..Len(order) |-> to_numeric(df.cells[first(item)][order[k]])]]]

\* The raw inputs: the largest number of columns of a raw income statement.
MaxColumns == 3

\* Two dates of 2023, one of 2022, and the integer label 2021.
RawLabels == {Timestamp(2023, 12), Timestamp(2023, 3), Timestamp(2022, 12), IntLabel(2021)}

\* The tuples of up to MaxColumns different labels, in every order.
RawColumns ==
    UNION {{c \in [1..n -> RawLabels] : \A i, j \in 1..n : i # j => c[i] # c[j]} :
              n \in 0..MaxColumns}

\* The cell of row r and column j: a number, NaN or a text.
RawCell(r, j) ==
    IF (r + j) % 4 = 0 THEN Text
    ELSE IF (r + j) % 5 = 0 THEN NaN
    ELSE Num(100 * r + j)

RawStatement(columns, index) ==
    RawFrame(columns, index,
             [r \in 1..Len(index) |-> [j \in 1..Len(columns) |-> RawCell(r, j)]])

EmptyRawFrame == RawFrame(<<>>, <<>>, <<>>)

RawIncomeIndexes ==
    {<<"Total Revenue", "Operating Income", "Income Before Tax", "Income Tax Expense">>,
     <<"Revenue", "Total Revenue", "total revenue", "Other Item", "Depreciation">>,
     <<>>}

RawIncomeStatements ==
    {RawStatement(columns, index) : columns \in RawColumns, index \in RawIncomeIndexes}

RawBalanceSheets ==
    {RawStatement(columns, <<"Total Debt", "Cash", "Gross Property Plant And Equipment">>) :
        columns \in {<<Timestamp(2023, 12), Timestamp(2022, 12)>>,
                     <<Timestamp(2022, 12), IntLabel(2021), Timestamp(2023, 12)>>,
                     <<Timestamp(2023, 3), Timestamp(2022, 12), Timestamp(2023, 12)>>}}

RawCashFlows ==
    {RawStatement(columns, <<"Depreciation", "Capital Expenditures",
                             "Depreciation And Amortization">>) :
        columns \in {<<IntLabel(2021), Timestamp(2022, 12)>>,
                     <<Timestamp(2023, 12), Timestamp(2023, 3)>>}}
        \cup {EmptyRawFrame}

\* stock_info: the dict of the profile, or an empty dict.
StockInfo(present, beta, marketCap) == [present |-> present, beta |-> beta, marketCap |-> marketCap]
StockInfos == {StockInfo(TRUE, Num(1), Num(5000)), StockInfo(TRUE, None, None),
               StockInfo(FALSE, None, None)}

RawData(is, bs, cf, info) ==
    [income_stmt |-> is, balance_sheet |-> bs, cash_flow |-> cf, stock_info |-> info]

\* No raw data: the run starts from processed statements.
NoRawData == RawData(EmptyRawFrame, EmptyRawFrame, EmptyRawFrame, StockInfo(FALSE, None, None))

----------------------------------------------------------------------------
(* config_manager.py: ConfigManager *)

\* A value of the wrong type for a numeric field (a string).
NotANumber == <<"abc">>

\* The sections and fields of EPVConfig that _validate_config reads, and one
\* field it does not read (sensitivity_steps).
SectionFields ==
    [calculation |-> {"normalization_years", "default_effective_tax_rate", "equity_risk_premium"},
     risk |-> {"monte_carlo_iterations", "confidence_levels", "sensitivity_steps"},
     performance |-> {"max_workers"}]
Sections == DOMAIN SectionFields

\* The defaults of the dataclasses.
DefaultSections ==
    [calculation |-> [normalization_years |-> Num(5),
                      default_effective_tax_rate |-> Rat(21, 100),
                      equity_risk_premium |-> Rat(55, 1000)],
     risk |-> [monte_carlo_iterations |-> Num(10000),
               confidence_levels |-> <<Rat(4, 5), Rat(9, 10), Rat(19, 20)>>,
               sensitivity_steps |-> Num(5)],
     performance |-> [max_workers |-> Num(4)]]

\* _create_default_config()
create_default_config == DefaultSections

\* A value of a dictionary: a dictionary itself (items) or something else.
Dict(items) == [is_dict |-> TRUE, items |-> items]
NotADict == [is_dict |-> FALSE, items |-> <<>>]

\* asdict(self.config): every section as a dictionary.
asdict(config) == [s \in Sections |-> Dict(config[s])]

\* _deep_update(base_dict, update_dict) on the dictionary of the sections: a
\* section that both hold as dictionaries is updated key by key (its values
\* are not dictionaries and are assigned), any other key is assigned.
deep_update(base_dict, update_dict) ==
    [key \in DOMAIN base_dict \cup DOMAIN update_dict |->
        IF key \notin DOMAIN update_dict THEN base_dict[key]
        ELSE IF key \in DOMAIN base_dict /\ base_dict[key].is_dict /\ update_dict[key].is_dict
        THEN Dict([k \in DOMAIN base_dict[key].items \cup DOMAIN update_dict[key].items |->
                      IF k \in DOMAIN update_dict[key].items
                      THEN update_dict[key].items[k]
                      ELSE base_dict[key].items[k]])
        ELSE update_dict[key]]

\* Section(**data.get(section, {})) raises TypeError: the value is not a
\* mapping, or holds a key that is not a field of the dataclass.
section_raises(data, s) ==
    s \in DOMAIN data /\ (~data[s].is_dict \/ ~(DOMAIN data[s].items \subseteq SectionFields[s]))

\* Section(**data.get(section, {})): the given fields over the defaults.
section_of(data, s) ==
    [k \in SectionFields[s] |->
        IF s \in DOMAIN data /\ k \in DOMAIN data[s].items THEN data[s].items[k]
        ELSE DefaultSections[s][k]]

\* A comparison of _validate_config raises TypeError on a string.
validate_raises(config) ==
    \/ config.calculation.normalization_years = NotANumber
    \/ config.calculation.default_effective_tax_rate = NotANumber
    \/ config.calculation.equity_risk_premium = NotANumber
    \/ config.risk.monte_carlo_iterations = NotANumber
    \/ config.performance.max_workers = NotANumber

\* The errors list of _validate_config.
validation_errors(config) ==
    (IF Lt(config.calculation.normalization_years, One)
        THEN {"normalization_years must be at least 1"} ELSE {})
    \cup (IF ~(Le(Zero, config.calculation.default_effective_tax_rate)
                 /\ Le(config.calculation.default_effective_tax_rate, One))
             THEN {"default_effective_tax_rate must be between 0 and 1"} ELSE {})
    \cup (IF ~(Le(Zero, config.calculation.equity_risk_premium)
                 /\ Le(config.calculation.equity_risk_premium, One))
             THEN {"equity_risk_premium must be between 0 and 1"} ELSE {})
    \cup (IF Lt(config.risk.monte_carlo_iterations, Num(100))
             THEN {"monte_carlo_iterations should be at least 100"} ELSE {})
    \cup (IF \E i \in 1..Len(config.risk.confidence_levels) :
                 ~(Lt(Zero, config.risk.confidence_levels[i])
                     /\ Lt(config.risk.confidence_levels[i], One))
             THEN {"confidence_level must be between 0 and 1"} ELSE {})
    \cup (IF Lt(config.performance.max_workers, One)
             THEN {"max_workers must be at least 1"} ELSE {})

\* Mutant: the configuration built from the dictionary is returned without
\* being validated.
dict_to_config_unvalidated(data) ==
    IF \E s \in Sections : section_raises(data, s)
    THEN [config |-> create_default_config, logged_error |-> TRUE]
    ELSE [config |-> [s \in Sections |-> section_of(data, s)], logged_error |-> FALSE]

\* _dict_to_config(data, file_path): the configuration, or the default one
\* (and an error in the log) when building or validating it raises.
dict_to_config(data) ==
    IF \E s \in Sections : section_raises(data, s)
    THEN [config |-> create_default_config, logged_error |-> TRUE]
    ELSE LET config == [s \in Sections |-> section_of(data, s)]
         IN  IF validate_raises(config) \/ validation_errors(config) # {}
             THEN [config |-> create_default_config, logged_error |-> TRUE]
             ELSE [config |-> config, logged_error |-> FALSE]

\* The update dictionaries: one field, two fields of two sections, a section
\* that is not a dictionary, a key that is no field, a key that is no section.
FieldUpdates ==
    {<<"calculation", "normalization_years", v>> : v \in {Num(0), Num(1), Num(7), NotANumber}}
    \cup {<<"calculation", "default_effective_tax_rate", v>> :
             v \in {Rat(-1, 10), Zero, One, Rat(3, 2)}}
    \cup {<<"calculation", "equity_risk_premium", v>> : v \in {Rat(11, 10), Rat(6, 100)}}
    \cup {<<"risk", "monte_carlo_iterations", v>> : v \in {Num(99), Num(100)}}
    \cup {<<"risk", "confidence_levels", v>> :
             v \in {<<>>, <<Rat(1, 2), One>>, <<Rat(1, 2), Rat(9, 10)>>}}
    \cup {<<"risk", "sensitivity_steps", v>> : v \in {Num(3)}}
    \cup {<<"risk", "no_such_field", v>> : v \in {Num(3)}}
    \cup {<<"performance", "max_workers", v>> : v \in {Num(0), Num(1)}}

OneField(u) == (u[1] :> Dict(u[2] :> u[3]))

ConfigUpdates ==
    {OneField(u) : u \in FieldUpdates}
    \cup {OneField(u) @@ OneField(<<"performance", "max_workers", w>>) :
             u \in {<<"calculation", "normalization_years", Num(7)>>,
                    <<"risk", "sensitivity_steps", Num(3)>>},
             w \in {Num(0), Num(1)}}
    \cup {("risk" :> NotADict), ("no_such_section" :> Dict("x" :> Num(1))), <<>>}

\* The dictionaries a configuration file can hold (sections may be missing).
ConfigFiles ==
    {<<>>,
     OneField(<<"calculation", "normalization_years", Num(7)>>),
     OneField(<<"calculation", "normalization_years", Num(0)>>),
     OneField(<<"risk", "monte_carlo_iterations", Num(99)>>),
     ("performance" :> NotADict)}

\* The argument of the last call of update_config, when there was one.
NoCall == [called |-> FALSE, updates |-> <<>>]
Call(updates) == [called |-> TRUE, updates |-> updates]

\* The manager: the held configuration, whether the last _dict_to_config
\* logged an error, and the last call of update_config.
Manager(built, last_call) ==
    [config |-> built.config, logged_error |-> built.logged_error, last_call |-> last_call]

\* ConfigManager() without a configuration file.
DefaultManager == Manager([config |-> create_default_config, logged_error |-> FALSE], NoCall)

----------------------------------------------------------------------------
(* main.py: run_epv_valuation, from the processed data on *)

\* The locals of run_epv_valuation before any stage ran.
NoVals ==
    [normalized_ebit |-> None, avg_op_margin |-> None, maint_capex |-> None,
     nopat |-> None, wacc |-> None, epv_ops |-> None, epv_equity |-> None,
     av_equity |-> None]

\* The calls of the valuation chain, in the order main.py makes them.
StageOrder ==
    <<"calculate_normalized_ebit", "calculate_maintenance_capex", "calculate_nopat",
      "calculate_wacc", "calculate_epv", "calculate_epv_equity",
      "calculate_asset_value_equity">>

NoSensitivity == [status |-> "not_started", WACC |-> <<>>, Avg_Op_Margin |-> <<>>]

\* The frame run_monte_carlo_simulation returns: one column of the valid values,
\* or pd.DataFrame() when there is none.
mc_results_df(simulated_epv_equity_values) ==
    IF simulated_epv_equity_values # <<>>
    THEN [columns |-> <<"Simulated EPV Equity">>, values |-> simulated_epv_equity_values]
    ELSE [columns |-> <<>>, values |-> <<>>]

\* attempts is the history of the loop: the sampled parameters and the outcome
\* of every iteration so far.  results_df is the returned frame.
NoMonteCarlo ==
    [status |-> "not_started", avg_op_margin |-> McStd0, beta |-> McStd0,
     num_simulations |-> 0, i |-> 0, simulated_epv_equity_values |-> <<>>,
     attempts |-> <<>>, results_df |-> mc_results_df(<<>>)]

NoProbe ==
    [pc |-> "idle", kind |-> "none", fixed |-> None, x1 |-> None, x2 |-> None,
     nopat_1 |-> None, nopat_2 |-> None, epv_ops_1 |-> None, epv_ops_2 |-> None,
     epv_equity_1 |-> None, epv_equity_2 |-> None]

Init ==
    /\ \E scenario \in Scenarios :
          /\ income_statement = scenario.is
          /\ balance_sheet = scenario.bs
          /\ cash_flow = scenario.cf
          /\ stock_details = scenario.sd
          /\ risk_args = scenario.args
    /\ raw_data = NoRawData
    /\ errors = <<>>
    /\ manager = DefaultManager
    /\ risk_free_rate = DEFAULT_RISK_FREE_RATE
    /\ pc = "processed_data"
    /\ executed = <<>>
    /\ vals = NoVals
    /\ result = [status |-> "running", values |-> NoVals]
    /\ sensitivity_output = NoSensitivity
    /\ mc = NoMonteCarlo
    /\ run = 1
    /\ first_result = [status |-> "running", values |-> NoVals]
    /\ probe = NoProbe

\* "return None": the run ends without a valuation result.
ReturnNone ==
    /\ pc' = "returned"
    /\ result' = [status |-> "None", values |-> NoVals]

inputs == <<income_statement, balance_sheet, cash_flow, stock_details, risk_free_rate,
            risk_args>>
processing == <<raw_data, errors, manager>>
risk == <<sensitivity_output, mc>>
runs == <<run, first_result, probe>>

\* if is_proc.empty or bs_proc.empty or cf_proc.empty or not details_proc
CheckProcessedData ==
    /\ pc = "processed_data"
    /\ IF IsEmpty(income_statement) \/ IsEmpty(balance_sheet) \/ IsEmpty(cash_flow)
       THEN ReturnNone
       ELSE pc' = "normalized_ebit" /\ UNCHANGED result
    /\ UNCHANGED <<processing, inputs, executed, vals, risk, runs>>

\* Mutant: the missing operating-income cells of the window are filled with 0
\* in the caller's frame.
income_statement_fillna_in_place(income_statement_, num_years) ==
    IF ~HasRow(income_statement_, S_OPERATING_INCOME) THEN income_statement_
    ELSE [income_statement_ EXCEPT !.rows[S_OPERATING_INCOME] =
             [i \in 1..Len(@) |-> IF i <= num_years /\ @[i] = NaN THEN Zero ELSE @[i]]]

\* The income statement as calculate_normalized_ebit leaves it: the function
\* reads the rows of the window and assigns to none of them.
income_statement_after_normalized_ebit(income_statement_, num_years) == income_statement_

NormalizedEbitStep ==
    /\ pc = "normalized_ebit"
    /\ LET norm_ebit_tuple ==
               calculate_normalized_ebit(income_statement, DEFAULT_NORMALIZATION_YEARS)
       IN  /\ executed' = Append(executed, "calculate_normalized_ebit")
           /\ income_statement' = income_statement_after_normalized_ebit(
                                      income_statement, DEFAULT_NORMALIZATION_YEARS)
           /\ IF norm_ebit_tuple = None
              THEN ReturnNone /\ UNCHANGED vals
              ELSE /\ vals' = [vals EXCEPT !.normalized_ebit = norm_ebit_tuple[1],
                                           !.avg_op_margin = norm_ebit_tuple[2]]
                   /\ pc' = "maint_capex"
                   /\ UNCHANGED result
    /\ UNCHANGED <<processing, balance_sheet, cash_flow, stock_details, risk_free_rate,
                   risk_args, risk, runs>>

\* The D&A fallback of main.py: None when it is unavailable too.
da_fallback(cf_proc) ==
    IF HasRow(cf_proc, S_DEPRECIATION_CF)
    THEN LET maint_capex == avg_depreciation(cf_proc, DEFAULT_NORMALIZATION_YEARS)
         IN  IF maint_capex = NaN THEN None ELSE maint_capex
    ELSE None

MaintenanceCapexStep ==
    /\ pc = "maint_capex"
    /\ LET returned == calculate_maintenance_capex(income_statement, balance_sheet, cash_flow,
                                                   DEFAULT_NORMALIZATION_YEARS)
           maint_capex == IF returned = None THEN da_fallback(cash_flow) ELSE returned
       IN  /\ executed' = Append(executed, "calculate_maintenance_capex")
           /\ IF maint_capex = None
              THEN ReturnNone /\ UNCHANGED vals
              ELSE /\ vals' = [vals EXCEPT !.maint_capex = maint_capex]
                   /\ pc' = "nopat"
                   /\ UNCHANGED result
    /\ UNCHANGED <<processing, inputs, risk, runs>>

NopatStep ==
    /\ pc = "nopat"
    /\ LET nopat == calculate_nopat(vals.normalized_ebit, income_statement,
                                    DEFAULT_NORMALIZATION_YEARS)
       IN  /\ executed' = Append(executed, "calculate_nopat")
           /\ IF nopat = None
              THEN ReturnNone /\ UNCHANGED vals
              ELSE /\ vals' = [vals EXCEPT !.nopat = nopat]
                   /\ pc' = "wacc"
                   /\ UNCHANGED result
    /\ UNCHANGED <<processing, inputs, risk, runs>>

\* Mutant: a failed WACC does not end the run.
WaccStep_no_return ==
    /\ pc = "wacc"
    /\ LET wacc == calculate_wacc(stock_details, balance_sheet, income_statement,
                                  risk_free_rate, EQUITY_RISK_PREMIUM,
                                  DEFAULT_WACC_NORMALIZATION_YEARS)
       IN  /\ executed' = Append(executed, "calculate_wacc")
           /\ vals' = [vals EXCEPT !.wacc = wacc]
           /\ pc' = "epv"
           /\ UNCHANGED result
    /\ UNCHANGED <<processing, inputs, risk, runs>>

WaccStep ==
    /\ pc = "wacc"
    /\ LET wacc == calculate_wacc(stock_details, balance_sheet, income_statement,
                                  risk_free_rate, EQUITY_RISK_PREMIUM,
                                  DEFAULT_WACC_NORMALIZATION_YEARS)
       IN  /\ executed' = Append(executed, "calculate_wacc")
           /\ IF wacc = None
              THEN ReturnNone /\ UNCHANGED vals
              ELSE /\ vals' = [vals EXCEPT !.wacc = wacc]
                   /\ pc' = "epv"
                   /\ UNCHANGED result
    /\ UNCHANGED <<processing, inputs, risk, runs>>

EpvStep ==
    /\ pc = "epv"
    /\ LET epv_results == calculate_epv(vals.nopat, vals.wacc, vals.maint_capex)
       IN  /\ executed' = Append(executed, "calculate_epv")
           /\ IF epv_results = None
              THEN ReturnNone /\ UNCHANGED vals
              ELSE /\ vals' = [vals EXCEPT !.epv_ops = epv_results]
                   /\ pc' = "epv_equity"
                   /\ UNCHANGED result
    /\ UNCHANGED <<processing, inputs, risk, runs>>

EpvEquityStep ==
    /\ pc = "epv_equity"
    /\ LET epv_equity == calculate_epv_equity(vals.epv_ops, balance_sheet, stock_details)
       IN  /\ executed' = Append(executed, "calculate_epv_equity")
           /\ IF epv_equity = None
              THEN ReturnNone /\ UNCHANGED vals
              ELSE /\ vals' = [vals EXCEPT !.epv_equity = epv_equity]
                   /\ pc' = "asset_value"
                   /\ UNCHANGED result
    /\ UNCHANGED <<processing, inputs, risk, runs>>

\* av_equity may be None: the run goes on to the summary and the risk analysis.
AssetValueStep ==
    /\ pc = "asset_value"
    /\ executed' = Append(executed, "calculate_asset_value_equity")
    /\ vals' = [vals EXCEPT !.av_equity = calculate_asset_value_equity(balance_sheet)]
    /\ pc' = "sensitivity"
    /\ UNCHANGED <<processing, inputs, result, risk, runs>>

\* base_calc_inputs of run_epv_valuation
base_calc_inputs ==
    [risk_free_rate |-> risk_free_rate,
     avg_op_margin_base |-> vals.avg_op_margin,
     wacc_base |-> vals.wacc,
     normalized_ebit_base |-> vals.normalized_ebit,
     nopat_base |-> vals.nopat,
     maint_capex_base |-> vals.maint_capex]

\* The sensitivity analysis of the two variables main.py sensitizes.
SensitivityStep ==
    /\ pc = "sensitivity"
    /\ LET tables == run_sensitivity_analysis(
                         base_calc_inputs, income_statement, balance_sheet, stock_details,
                         vals.wacc, vals.avg_op_margin, SENSITIVITY_RANGE_PERCENT,
                         risk_args.num_steps)
       IN  sensitivity_output' = [status |-> "returned", WACC |-> tables.WACC,
                                  Avg_Op_Margin |-> tables.Avg_Op_Margin]
    /\ pc' = "monte_carlo"
    /\ UNCHANGED <<processing, inputs, executed, vals, result, mc, runs>>

\* An entry of mc_variable_configs with the mean run_epv_valuation gives it.
with_mean(config, mean) ==
    [present |-> config.present, dist |-> config.dist, mean |-> mean, std |-> config.std]

\* The call of run_monte_carlo_simulation: the locals before the loop.
MonteCarloStart ==
    /\ pc = "monte_carlo"
    /\ mc' = [status |-> "in_loop",
              avg_op_margin |-> with_mean(risk_args.avg_op_margin, vals.avg_op_margin),
              beta |-> with_mean(risk_args.beta, stock_details.beta),
              num_simulations |-> risk_args.num_simulations,
              i |-> 0,
              simulated_epv_equity_values |-> <<>>,
              attempts |-> <<>>,
              results_df |-> mc_results_df(<<>>)]
    /\ pc' = "monte_carlo_loop"
    /\ UNCHANGED <<processing, inputs, executed, vals, result, sensitivity_output, runs>>

\* The statements of an iteration that raise outside its try block: the
\* modulo by num_simulations // 10 = 0, and np.random.normal with the mean None.
iteration_raises ==
    \/ progress_interval(mc.num_simulations) = 0
    \/ mc.avg_op_margin.present /\ mc.avg_op_margin.dist = "normal"
          /\ mc.avg_op_margin.mean = None
    \/ mc.beta.present /\ mc.beta.dist = "normal" /\ mc.beta.mean = None

\* "return valuation_results" at the end of run_epv_valuation.
ReturnValuationResults ==
    /\ pc' = "returned"
    /\ result' = [status |-> "valuation_results", values |-> vals]

\* Mutant: the sampled beta is written into the profile itself, not into a copy.
MonteCarloIteration_writes_profile ==
    /\ pc = "monte_carlo_loop"
    /\ mc.i < mc.num_simulations
    /\ IF iteration_raises
       THEN /\ mc' = [mc EXCEPT !.status = "raised"]
            /\ ReturnValuationResults
            /\ UNCHANGED stock_details
       ELSE /\ \E avg_op_margin \in sampled_op_margins(mc.avg_op_margin, base_calc_inputs),
                  beta \in sampled_betas(mc.beta, stock_details) :
                   LET epv_equity_sim ==
                           mc_recalculate(base_calc_inputs, income_statement, balance_sheet,
                                          stock_details, risk_free_rate, avg_op_margin, beta)
                   IN  /\ mc' = [mc EXCEPT
                                    !.i = @ + 1,
                                    !.simulated_epv_equity_values =
                                        IF epv_equity_sim = None THEN @
                                        ELSE Append(@, epv_equity_sim),
                                    !.attempts =
                                        Append(@, [avg_op_margin |-> avg_op_margin,
                                                   beta |-> beta,
                                                   epv_equity_sim |-> epv_equity_sim])]
                       /\ stock_details' = temp_stock_details(stock_details, beta)
            /\ UNCHANGED <<pc, result>>
    /\ UNCHANGED <<processing, income_statement, balance_sheet, cash_flow, risk_free_rate, risk_args, executed, vals, sensitivity_output, runs>>

\* Mutant: an iteration whose recalculation fails ends the loop (break).
MonteCarloIteration_break ==
    /\ pc = "monte_carlo_loop"
    /\ mc.i < mc.num_simulations
    /\ IF iteration_raises
       THEN /\ mc' = [mc EXCEPT !.status = "raised"]
            /\ ReturnValuationResults
       ELSE /\ \E avg_op_margin \in sampled_op_margins(mc.avg_op_margin, base_calc_inputs),
                  beta \in sampled_betas(mc.beta, stock_details) :
                   LET epv_equity_sim ==
                           mc_recalculate(base_calc_inputs, income_statement, balance_sheet,
                                          stock_details, risk_free_rate, avg_op_margin, beta)
                   IN  mc' = [mc EXCEPT
                                 !.i = IF epv_equity_sim = None THEN mc.num_simulations
                                       ELSE @ + 1,
                                 !.simulated_epv_equity_values =
                                     IF epv_equity_sim = None THEN @
                                     ELSE Append(@, epv_equity_sim),
                                 !.attempts =
                                     Append(@, [avg_op_margin |-> avg_op_margin,
                                                beta |-> beta,
                                                epv_equity_sim |-> epv_equity_sim])]
            /\ UNCHANGED <<pc, result>>
    /\ UNCHANGED <<processing, inputs, executed, vals, sensitivity_output, runs>>

\* One iteration of the loop.  An exception outside the try block leaves
\* run_monte_carlo_simulation and is caught by run_epv_valuation, which returns.
MonteCarloIteration ==
    /\ pc = "monte_carlo_loop"
    /\ mc.i < mc.num_simulations
    /\ IF iteration_raises
       THEN /\ mc' = [mc EXCEPT !.status = "raised"]
            /\ ReturnValuationResults
       ELSE /\ \E avg_op_margin \in sampled_op_margins(mc.avg_op_margin, base_calc_inputs),
                  beta \in sampled_betas(mc.beta, stock_details) :
                   LET epv_equity_sim ==
                           mc_recalculate(base_calc_inputs, income_statement, balance_sheet,
                                          stock_details, risk_free_rate, avg_op_margin, beta)
                   IN  mc' = [mc EXCEPT
                                 !.i = @ + 1,
                                 !.simulated_epv_equity_values =
                                     IF epv_equity_sim = None THEN @
                                     ELSE Append(@, epv_equity_sim),
                                 !.attempts =
                                     Append(@, [avg_op_margin |-> avg_op_margin,
                                                beta |-> beta,
                                                epv_equity_sim |-> epv_equity_sim])]
            /\ UNCHANGED <<pc, result>>
    /\ UNCHANGED <<processing, inputs, executed, vals, sensitivity_output, runs>>

\* The loop is over: the DataFrame of the valid values (empty when there is
\* none) is returned, and run_epv_valuation returns its valuation results.
MonteCarloReturn ==
    /\ pc = "monte_carlo_loop"
    /\ mc.i = mc.num_simulations
    /\ mc' = [mc EXCEPT !.status = "returned",
                         !.results_df = mc_results_df(mc.simulated_epv_equity_values)]
    /\ ReturnValuationResults
    /\ UNCHANGED <<processing, inputs, executed, vals, sensitivity_output, runs>>

Next ==
    \/ CheckProcessedData
    \/ NormalizedEbitStep
    \/ MaintenanceCapexStep
    \/ NopatStep
    \/ WaccStep
    \/ EpvStep
    \/ EpvEquityStep
    \/ AssetValueStep
    \/ SensitivityStep
    \/ MonteCarloStart
    \/ MonteCarloIteration
    \/ MonteCarloReturn

Spec == Init /\ [][Next]_vars

----------------------------------------------------------------------------
(* Two sequential runs of the valuation chain on the same processed data *)

\* What a run of the chain hands back: None, or the values of the stages.
chain_result ==
    IF pc = "returned" THEN result ELSE [status |-> "valuation_results", values |-> vals]

\* The first run is over: its outcome is kept and the chain is called again
\* with the same objects.
Rerun ==
    /\ run = 1
    /\ pc \in {"sensitivity", "returned"}
    /\ first_result' = chain_result
    /\ run' = 2
    /\ pc' = "processed_data"
    /\ executed' = <<>>
    /\ vals' = NoVals
    /\ result' = [status |-> "running", values |-> NoVals]
    /\ UNCHANGED <<processing, inputs, risk, probe>>

NextTwice ==
    \/ CheckProcessedData
    \/ NormalizedEbitStep
    \/ MaintenanceCapexStep
    \/ NopatStep
    \/ WaccStep
    \/ EpvStep
    \/ EpvEquityStep
    \/ AssetValueStep
    \/ Rerun

SpecTwice == Init /\ [][NextTwice]_vars

----------------------------------------------------------------------------
(* Direct calls of the chain's last stages with two values of one argument *)

ProbeWaccs == {Rat(-1, 10), Rat(-1, 20), Zero, NaN, Rat(1, 20), Rat(19, 200), Rat(1, 5)}
ProbeNopats == {Num(158), Num(1), Zero, Num(-158)}
ProbeMargins == {Rat(-1, 5), Zero, Rat(1, 10), Rat(1, 5), Rat(3, 10)}
ProbeBalanceSheets ==
    {BalanceSheet3(debt, bridge, BasePpe, BaseAsset) :
        debt \in RiskDebts, bridge \in BridgeRows}
ProbeIncomeStatements ==
    {IncomeStatement3(rev, BaseOperatingIncome, tax, <<>>) :
        rev \in {BaseRevenue, <<Num(-1000), Num(900), Num(800)>>},
        tax \in {BaseTax, <<<<Num(100), Num(100), Num(100)>>, <<Num(50), Num(60), NaN>>>>}}

\* kind "wacc": fixed is the NOPAT, x1 and x2 are the two WACC values.
\* kind "margin": fixed is the WACC, x1 and x2 are the two operating margins.
Probe(kind, fixed, x1, x2) ==
    [NoProbe EXCEPT !.pc = IF kind = "wacc" THEN "epv" ELSE "nopat",
                    !.kind = kind, !.fixed = fixed, !.x1 = x1, !.x2 = x2]

InitPure ==
    /\ raw_data = NoRawData
    /\ errors = <<>>
    /\ manager = DefaultManager
    /\ cash_flow = BaseCashFlow
    /\ stock_details = BaseStockDetails
    /\ risk_args = BaseRiskArgs
    /\ risk_free_rate = DEFAULT_RISK_FREE_RATE
    /\ pc = "probe"
    /\ executed = <<>>
    /\ vals = NoVals
    /\ result = [status |-> "running", values |-> NoVals]
    /\ sensitivity_output = NoSensitivity
    /\ mc = NoMonteCarlo
    /\ run = 1
    /\ first_result = [status |-> "running", values |-> NoVals]
    /\ balance_sheet \in ProbeBalanceSheets
    /\ \/ /\ income_statement = BaseIncomeStatement
          /\ \E nopat \in ProbeNopats, w1 \in ProbeWaccs, w2 \in ProbeWaccs :
                 probe = Probe("wacc", nopat, w1, w2)
       \/ /\ income_statement \in ProbeIncomeStatements
          /\ \E wacc \in ProbeWaccs, m1 \in ProbeMargins, m2 \in ProbeMargins :
                 probe = Probe("margin", wacc, m1, m2)

\* revenue * margin -> calculate_nopat, for both margins
nopat_of_margin(margin) ==
    calculate_nopat(Mul(income_statement.rows[S_REVENUE][1], margin), income_statement,
                    DEFAULT_NORMALIZATION_YEARS)

ProbeNopat ==
    /\ probe.pc = "nopat"
    /\ LET n1 == nopat_of_margin(probe.x1)
           n2 == nopat_of_margin(probe.x2)
       IN  probe' = [probe EXCEPT !.nopat_1 = n1, !.nopat_2 = n2,
                                  !.pc = IF n1 = None \/ n2 = None THEN "failed" ELSE "epv"]
    /\ UNCHANGED <<processing, inputs, pc, executed, vals, result, risk, run, first_result>>

ProbeEpv ==
    /\ probe.pc = "epv"
    /\ LET e1 == IF probe.kind = "wacc"
                 THEN calculate_epv(probe.fixed, probe.x1, Zero)
                 ELSE calculate_epv(probe.nopat_1, probe.fixed, Zero)
           e2 == IF probe.kind = "wacc"
                 THEN calculate_epv(probe.fixed, probe.x2, Zero)
                 ELSE calculate_epv(probe.nopat_2, probe.fixed, Zero)
       IN  probe' = [probe EXCEPT !.epv_ops_1 = e1, !.epv_ops_2 = e2,
                                  !.pc = IF e1 = None \/ e2 = None THEN "failed"
                                         ELSE "epv_equity"]
    /\ UNCHANGED <<processing, inputs, pc, executed, vals, result, risk, run, first_result>>

ProbeEpvEquity ==
    /\ probe.pc = "epv_equity"
    /\ LET q1 == calculate_epv_equity(probe.epv_ops_1, balance_sheet, stock_details)
           q2 == calculate_epv_equity(probe.epv_ops_2, balance_sheet, stock_details)
       IN  probe' = [probe EXCEPT !.epv_equity_1 = q1, !.epv_equity_2 = q2,
                                  !.pc = IF q1 = None \/ q2 = None THEN "failed" ELSE "done"]
    /\ UNCHANGED <<processing, inputs, pc, executed, vals, result, risk, run, first_result>>

NextPure ==
    \/ ProbeNopat
    \/ ProbeEpv
    \/ ProbeEpvEquity

SpecPure == InitPure /\ [][NextPure]_vars

----------------------------------------------------------------------------
(* process_financial_data on raw statements *)

\* processed_data before the statements are processed: three empty frames,
\* an empty stock_details (every get() on it gives None), no error.
InitProcess ==
    /\ raw_data \in {RawData(is, bs, cf, info) :
                        is \in RawIncomeStatements, bs \in RawBalanceSheets,
                        cf \in RawCashFlows, info \in StockInfos}
    /\ errors = <<>>
    /\ manager = DefaultManager
    /\ income_statement = EmptyStatement
    /\ balance_sheet = EmptyStatement
    /\ cash_flow = EmptyStatement
    /\ stock_details = StockDetails(None, None)
    /\ risk_args = BaseRiskArgs
    /\ risk_free_rate = DEFAULT_RISK_FREE_RATE
    /\ pc = "process_income_statement"
    /\ executed = <<>>
    /\ vals = NoVals
    /\ result = [status |-> "running", values |-> NoVals]
    /\ sensitivity_output = NoSensitivity
    /\ mc = NoMonteCarlo
    /\ run = 1
    /\ first_result = [status |-> "running", values |-> NoVals]
    /\ probe = NoProbe

not_processing == <<manager, risk_free_rate, risk_args, executed, vals, result, risk, runs>>

\* The outcome of one of the three blocks of process_financial_data: the
\* statement is left empty and an error recorded when the raw frame is empty;
\* the TypeError of the conversion leaves process_financial_data; else the
\* processed statement is stored.
process_block(raw, mapping, error, statement, next_pc) ==
    IF RawIsEmpty(raw)
    THEN /\ errors' = Append(errors, error)
         /\ statement' = statement
         /\ pc' = next_pc
    ELSE IF to_numeric_raises(renamed_columns(raw.columns))
    THEN /\ pc' = "raised"
         /\ statement' = statement
         /\ UNCHANGED errors
    ELSE /\ statement' = processed_statement(raw, mapping)
         /\ pc' = next_pc
         /\ UNCHANGED errors

ProcessIncomeStatement ==
    /\ pc = "process_income_statement"
    /\ process_block(raw_data.income_stmt, INCOME_STATEMENT_MAPPING,
                     "Raw income statement is empty.", income_statement,
                     "process_balance_sheet")
    /\ UNCHANGED <<raw_data, balance_sheet, cash_flow, stock_details, not_processing>>

ProcessBalanceSheet ==
    /\ pc = "process_balance_sheet"
    /\ process_block(raw_data.balance_sheet, BALANCE_SHEET_MAPPING,
                     "Raw balance sheet is empty.", balance_sheet, "process_cash_flow")
    /\ UNCHANGED <<raw_data, income_statement, cash_flow, stock_details, not_processing>>

ProcessCashFlow ==
    /\ pc = "process_cash_flow"
    /\ process_block(raw_data.cash_flow, CASH_FLOW_MAPPING,
                     "Raw cash flow statement is empty.", cash_flow, "process_stock_details")
    /\ UNCHANGED <<raw_data, income_statement, balance_sheet, stock_details, not_processing>>

ProcessStockDetails ==
    /\ pc = "process_stock_details"
    /\ IF raw_data.stock_info.present
       THEN /\ stock_details' = StockDetails(raw_data.stock_info.beta,
                                             raw_data.stock_info.marketCap)
            /\ UNCHANGED errors
       ELSE /\ errors' = Append(errors, "Stock info is empty.")
            /\ UNCHANGED stock_details
    /\ pc' = "processed_data"
    /\ UNCHANGED <<raw_data, income_statement, balance_sheet, cash_flow, not_processing>>

NextProcess ==
    \/ ProcessIncomeStatement
    \/ ProcessBalanceSheet
    \/ ProcessCashFlow
    \/ ProcessStockDetails

SpecProcess == InitProcess /\ [][NextProcess]_vars

----------------------------------------------------------------------------
(* ConfigManager: construction and update_config *)

\* __init__: the configuration of the file when there is one, else the default.
InitConfig ==
    /\ manager \in {Manager(dict_to_config(data), NoCall) : data \in ConfigFiles}
    /\ raw_data = NoRawData
    /\ errors = <<>>
    /\ income_statement = EmptyStatement
    /\ balance_sheet = EmptyStatement
    /\ cash_flow = EmptyStatement
    /\ stock_details = StockDetails(None, None)
    /\ risk_args = BaseRiskArgs
    /\ risk_free_rate = DEFAULT_RISK_FREE_RATE
    /\ pc = "config"
    /\ executed = <<>>
    /\ vals = NoVals
    /\ result = [status |-> "running", values |-> NoVals]
    /\ sensitivity_output = NoSensitivity
    /\ mc = NoMonteCarlo
    /\ run = 1
    /\ first_result = [status |-> "running", values |-> NoVals]
    /\ probe = NoProbe

\* update_config(updates)
UpdateConfig ==
    /\ pc = "config"
    /\ \E updates \in ConfigUpdates :
           LET config_dict == deep_update(asdict(manager.config), updates)
               new_config == dict_to_config(config_dict)
           IN  manager' = Manager(new_config, Call(updates))
    /\ UNCHANGED <<raw_data, errors, inputs, pc, executed, vals, result, risk, runs>>

NextConfig == UpdateConfig

SpecConfig == InitConfig /\ [][NextConfig]_vars

----------------------------------------------------------------------------
(* Properties *)

\* The rows of the two sensitivity tables.
SensitivityRows(var_name) ==
    IF var_name = "WACC" THEN sensitivity_output.WACC ELSE sensitivity_output.Avg_Op_Margin

\* C1: for both sensitized variables, the variation-0% row (multiplier 1) of the
\* table run_sensitivity_analysis returns carries the base-case EPV equity.
C1_ZeroVariationRowIsBaseCase ==
    sensitivity_output.status = "returned" =>
        \A var_name \in {"WACC", "Avg Op Margin"} :
            \A k \in 1..Len(SensitivityRows(var_name)) :
                SensitivityRows(var_name)[k].multiplier = One =>
                    SensitivityRows(var_name)[k].EPV_Equity = vals.epv_equity

stage_value(k) ==
    CASE k = 1 -> vals.normalized_ebit
      [] k = 2 -> vals.maint_capex
      [] k = 3 -> vals.nopat
      [] k = 4 -> vals.wacc
      [] k = 5 -> vals.epv_ops
      [] k = 6 -> vals.epv_equity
      [] OTHER -> vals.av_equity

\* C3: the stages run in the fixed order; once one of the six stages has
\* failed, no later stage has run, neither risk analysis has started and the
\* run has returned None, without a partial result; the risk analysis starts
\* only after all six stages succeeded.
C3_FixedOrderAndShortCircuit ==
    /\ Len(executed) <= Len(StageOrder)
    /\ \A k \in 1..Len(executed) : executed[k] = StageOrder[k]
    /\ \A k \in 1..MinInt(Len(executed), 6) :
          stage_value(k) = None =>
              /\ Len(executed) = k
              /\ pc = "returned"
              /\ result = [status |-> "None", values |-> NoVals]
              /\ sensitivity_output.status = "not_started"
              /\ mc.status = "not_started"
    /\ (sensitivity_output.status # "not_started" \/ mc.status # "not_started"
        \/ result.status = "valuation_results") =>
          /\ Len(executed) = Len(StageOrder)
          /\ \A k \in 1..6 : stage_value(k) # None

C3_Witness ==
    /\ pc = "returned"
    /\ executed = SubSeq(StageOrder, 1, 4)
    /\ vals.nopat # None
    /\ vals.wacc = None
    /\ result.status = "None"

\* C4: an income statement without an operating-income row makes
\* calculate_normalized_ebit return None for every window, and the run then
\* returns None after that one call, with no EPV value.
C4_NoOperatingIncomeFails ==
    ~HasRow(income_statement, S_OPERATING_INCOME) =>
        /\ \A num_years \in Windows :
              calculate_normalized_ebit(income_statement, num_years) = None
        /\ Len(executed) >= 1 =>
              /\ executed = <<"calculate_normalized_ebit">>
              /\ pc = "returned"
              /\ result = [status |-> "None", values |-> NoVals]
              /\ vals.epv_ops = None
              /\ vals.epv_equity = None

C4_Witness ==
    /\ ~HasRow(income_statement, S_OPERATING_INCOME)
    /\ HasRow(income_statement, S_REVENUE)
    /\ income_statement.rows[S_REVENUE][1] # NaN
    /\ executed = <<"calculate_normalized_ebit">>
    /\ pc = "returned"
    /\ result.status = "None"

\* The rate calculate_nopat applied, read off its result for an EBIT of 100.
applied_tax_rate(income_statement_, num_years) ==
    Sub(One, Div(calculate_nopat(Num(100), income_statement_, num_years), Num(100)))

within_tax_bounds(rate) ==
    Le(MIN_EFFECTIVE_TAX_RATE, rate) /\ Le(rate, MAX_EFFECTIVE_TAX_RATE)

\* C5: whenever calculate_nopat returns a value, for every window, the effective
\* tax rate it applied lies in [MIN_EFFECTIVE_TAX_RATE, MAX_EFFECTIVE_TAX_RATE]
\* (evaluated on the income statement each run starts with); so does the rate
\* behind the NOPAT of the run.
C5_AppliedTaxRateWithinBounds ==
    /\ pc = "processed_data" =>
          \A num_years \in Windows :
              calculate_nopat(Num(100), income_statement, num_years) # None =>
                  within_tax_bounds(applied_tax_rate(income_statement, num_years))
    /\ (vals.nopat # None /\ vals.normalized_ebit # Zero) =>
          within_tax_bounds(Sub(One, Div(vals.nopat, vals.normalized_ebit)))

\* The NOPAT stage has run on a statement whose average historical rate is
\* above the maximum.
C5_Witness ==
    /\ pc = "wacc"
    /\ vals.nopat # None
    /\ vals.normalized_ebit # Zero
    /\ LET rates == tax_rates(Take(income_statement.rows[S_TAX_PROVISION],
                                   DEFAULT_NORMALIZATION_YEARS),
                              Take(income_statement.rows[S_PRETAX_INCOME],
                                   DEFAULT_NORMALIZATION_YEARS))
       IN  rates # <<>> /\ Lt(MAX_EFFECTIVE_TAX_RATE, Mean(rates))

\* The debt items of the latest balance sheet that are present and not NaN, in
\* the order Total Debt, Short Long Term Debt, Long Term Debt.
present_debt_items(balance_sheet_) ==
    SelectSeq(<<S_TOTAL_DEBT, S_SHORT_LONG_TERM_DEBT, S_LONG_TERM_DEBT>>,
              LAMBDA item : HasRow(balance_sheet_, item)
                                /\ balance_sheet_.rows[item][1] # NaN)

debt_zero_or_absent(balance_sheet_) ==
    \/ present_debt_items(balance_sheet_) = <<>>
    \/ balance_sheet_.rows[Head(present_debt_items(balance_sheet_))][1] = Zero

\* risk_free_rate + beta * equity_risk_premium, DEFAULT_BETA for an absent beta
cost_of_equity_of(stock_details_) ==
    Add(risk_free_rate,
        Mul(IF stock_details_.beta = None \/ stock_details_.beta = NaN
            THEN DEFAULT_BETA ELSE stock_details_.beta,
            EQUITY_RISK_PREMIUM))

\* C6: with a market cap present and non-zero and a debt figure zero or absent,
\* calculate_wacc returns risk_free_rate + beta * equity_risk_premium, for
\* every window and whatever the interest and tax rows of the income statement.
C6_ZeroDebtWaccIsCostOfEquity ==
    (/\ Len(executed) = 4
     /\ notna(stock_details.market_cap) /\ stock_details.market_cap # Zero
     /\ debt_zero_or_absent(balance_sheet)) =>
        /\ vals.wacc = cost_of_equity_of(stock_details)
        /\ \A num_years \in Windows, tax \in TaxRows, interest \in InterestRows :
              calculate_wacc(stock_details, balance_sheet,
                             IncomeStatement3(BaseRevenue, BaseOperatingIncome, tax, interest),
                             risk_free_rate, EQUITY_RISK_PREMIUM, num_years)
                  = cost_of_equity_of(stock_details)

\* The WACC stage has run with a Total Debt of 0 in front of a Long Term Debt of
\* 250, and with interest rows in the income statement.
C6_Witness ==
    /\ pc = "epv"
    /\ Len(executed) = 4
    /\ LatestPresent(balance_sheet, S_TOTAL_DEBT)
    /\ balance_sheet.rows[S_TOTAL_DEBT][1] = Zero
    /\ LatestPresent(balance_sheet, S_LONG_TERM_DEBT)
    /\ HasRow(income_statement, S_INTEREST_EXPENSE)
    /\ vals.wacc = cost_of_equity_of(stock_details)

\* C7: every value calculate_maintenance_capex returns, for every window, is
\* >= 0 (evaluated on the statements each run starts with); so is the value
\* the stage of the run returned.
C7_MaintenanceCapexNonNegative ==
    /\ pc = "processed_data" =>
          \A num_years \in Windows :
              LET returned == calculate_maintenance_capex(income_statement, balance_sheet,
                                                          cash_flow, num_years)
              IN  returned # None => Le(Zero, returned)
    /\ vals.maint_capex # None => Le(Zero, vals.maint_capex)

\* The stage has run on statements whose per-year estimates average below 0.
C7_Witness ==
    /\ pc = "nopat"
    /\ vals.maint_capex = Zero
    /\ HasRow(cash_flow, S_CAPEX)
    /\ cash_flow.rows[S_CAPEX][1] = Num(-10)

\* C8: for a fixed NOPAT > 0 and balance sheet and two WACC values w1 < w2 for
\* which calculate_epv and calculate_epv_equity succeed, the EPV equity at w1
\* is strictly greater than the EPV equity at w2.
C8_EpvEquityDecreasingInWacc ==
    (/\ probe.kind = "wacc"
     /\ probe.pc = "done"
     /\ Lt(Zero, probe.fixed)
     /\ Lt(probe.x1, probe.x2)) => Lt(probe.epv_equity_2, probe.epv_equity_1)

\* C9: for a fixed WACC, tax data and balance sheet, a positive latest revenue
\* and two margins m1 < m2 for which revenue * margin -> calculate_nopat ->
\* calculate_epv -> calculate_epv_equity succeeds, the EPV equity at m1 is
\* strictly less than the EPV equity at m2.
C9_EpvEquityIncreasingInMargin ==
    (/\ probe.kind = "margin"
     /\ probe.pc = "done"
     /\ Lt(Zero, income_statement.rows[S_REVENUE][1])
     /\ Lt(probe.x1, probe.x2)) => Lt(probe.epv_equity_1, probe.epv_equity_2)

\* C10: when both distributions are given with a standard deviation of 0 (their
\* means being the base-case margin and beta), every valid iteration's
\* simulated EPV equity equals the base-case EPV equity.
C10_ZeroStdReproducesBaseCase ==
    (/\ mc.status \in {"in_loop", "returned"}
     /\ mc.avg_op_margin.present /\ mc.avg_op_margin.std = Zero
     /\ mc.beta.present /\ mc.beta.std = Zero) =>
        \A k \in 1..Len(mc.simulated_epv_equity_values) :
            mc.simulated_epv_equity_values[k] = vals.epv_equity

\* The outcomes of the iterations that are values, in the order of the loop.
valid_outcomes(attempts) ==
    SelectSeq([k \in 1..Len(attempts) |-> attempts[k].epv_equity_sim],
              LAMBDA v : v # None)

\* A stage of the recalculation with the sampled margin and beta fails: NOPAT,
\* WACC missing or <= 0, EPV of operations, EPV of equity.
iteration_stage_fails(avg_op_margin, beta) ==
    LET nopat_sim == calculate_nopat(Mul(income_statement.rows[S_REVENUE][1], avg_op_margin),
                                     income_statement, DEFAULT_NORMALIZATION_YEARS)
        wacc_sim == calculate_wacc(temp_stock_details(stock_details, beta), balance_sheet,
                                   income_statement, risk_free_rate, EQUITY_RISK_PREMIUM,
                                   DEFAULT_WACC_NORMALIZATION_YEARS)
    IN  \/ nopat_sim = None
        \/ wacc_sim = None
        \/ Le(wacc_sim, Zero)
        \/ calculate_epv(nopat_sim, wacc_sim, vals.maint_capex) = None
        \/ calculate_epv_equity(calculate_epv(nopat_sim, wacc_sim, vals.maint_capex),
                                balance_sheet, stock_details) = None

\* C11: in run_monte_carlo_simulation an iteration whose recalculation fails at
\* a stage is discarded and nothing else: every iteration up to the current one
\* was attempted, an iteration has no value exactly when one of its stages
\* failed, the valid values are exactly the values of the successful iterations
\* in order, there are never more of them than num_simulations, and the
\* function returns only after num_simulations attempts (it is left early only
\* by an exception raised outside the recalculation).
C11_FailedIterationOnlyDiscarded ==
    mc.status # "not_started" =>
        /\ Len(mc.attempts) = mc.i
        /\ \A k \in 1..Len(mc.attempts) :
              (mc.attempts[k].epv_equity_sim = None)
                  <=> iteration_stage_fails(mc.attempts[k].avg_op_margin, mc.attempts[k].beta)
        /\ mc.simulated_epv_equity_values = valid_outcomes(mc.attempts)
        /\ Len(mc.simulated_epv_equity_values) <= mc.num_simulations
        /\ mc.status = "returned" => Len(mc.attempts) = mc.num_simulations
        /\ mc.status = "raised" => iteration_raises

\* The simulation returned after an iteration failed at the WACC stage and a
\* later one succeeded.
C11_Witness ==
    /\ mc.status = "returned"
    /\ mc.num_simulations = MaxSimulations
    /\ \E j, k \in 1..Len(mc.attempts) :
          /\ j < k
          /\ mc.attempts[j].epv_equity_sim = None
          /\ mc.attempts[k].epv_equity_sim # None
    /\ Len(mc.simulated_epv_equity_values) < mc.num_simulations
    /\ Len(mc.simulated_epv_equity_values) > 0

\* The recalculation of a sensitivity step fails: for WACC the varied WACC is
\* <= 0 or an EPV stage gives None, for the margin NOPAT or an EPV stage does.
step_fails(var_name, varied_value) ==
    IF var_name = "WACC"
    THEN \/ Le(varied_value, Zero)
         \/ calculate_epv(vals.nopat, varied_value, vals.maint_capex) = None
         \/ calculate_epv_equity(calculate_epv(vals.nopat, varied_value, vals.maint_capex),
                                 balance_sheet, stock_details) = None
    ELSE LET temp_nopat ==
                 calculate_nopat(Mul(income_statement.rows[S_REVENUE][1], varied_value),
                                 income_statement, DEFAULT_NORMALIZATION_YEARS)
         IN  \/ temp_nopat = None
             \/ calculate_epv(temp_nopat, vals.wacc, vals.maint_capex) = None
             \/ calculate_epv_equity(calculate_epv(temp_nopat, vals.wacc, vals.maint_capex),
                                     balance_sheet, stock_details) = None

\* C12: for both sensitized variables the table run_sensitivity_analysis returns
\* has exactly one row per step (the number of steps after the odd adjustment),
\* in ascending order of the multiplier, and the EPV Equity of a row is NaN
\* exactly when the recalculation of its step failed: a failed step never has a
\* number and never removes a row.
C12_OneRowPerStepFailureIsNaN ==
    sensitivity_output.status = "returned" =>
        \A var_name \in {"WACC", "Avg Op Margin"} :
            LET rows == SensitivityRows(var_name)
                num_steps == odd_steps(risk_args.num_steps)
                base_value == IF var_name = "WACC" THEN vals.wacc ELSE vals.avg_op_margin
            IN  /\ Len(rows) = num_steps
                /\ \A k \in 1..(Len(rows) - 1) :
                      Lt(rows[k].multiplier, rows[k + 1].multiplier)
                /\ \A k \in 1..Len(rows) :
                      /\ rows[k].varied_value = Mul(base_value, rows[k].multiplier)
                      /\ (rows[k].EPV_Equity = NaN)
                             <=> step_fails(var_name, rows[k].varied_value)

\* Four steps were requested with a negative base WACC: the WACC table has five
\* rows, all NaN, and the margin table five rows with numbers.
C12_Witness ==
    /\ sensitivity_output.status = "returned"
    /\ risk_args.num_steps = 4
    /\ Lt(vals.wacc, Zero)
    /\ Len(sensitivity_output.WACC) = 5
    /\ \A k \in 1..5 : sensitivity_output.WACC[k].EPV_Equity = NaN
    /\ Len(sensitivity_output.Avg_Op_Margin) = 5
    /\ \A k \in 1..5 : sensitivity_output.Avg_Op_Margin[k].EPV_Equity # NaN

\* C13: when no iteration was valid, run_monte_carlo_simulation does not hand an
\* empty frame back as a normal return: a normal return carries at least one
\* simulated value.
C13_NoValidSimulationsIsExplicit ==
    mc.status = "returned" =>
        /\ mc.results_df.values # <<>>
        /\ mc.results_df.columns # <<>>

\* What the claim of C14 requires of calculate_epv(nopat, wacc): no value for
\* a WACC <= 0, nopat / wacc for a WACC > 0.
epv_as_required(nopat, wacc, epv_ops) ==
    /\ (wacc # NaN /\ Le(wacc, Zero)) => epv_ops = None
    /\ (wacc # NaN /\ Lt(Zero, wacc)) => epv_ops = Div(nopat, wacc)

\* C14: calculate_epv returns no EPV of operations for every WACC <= 0, negative
\* ones included, and NOPAT / WACC when the WACC is > 0.
C14_EpvFailsForNonPositiveWacc ==
    (probe.kind = "wacc" /\ probe.pc \in {"failed", "epv_equity", "done"}) =>
        /\ epv_as_required(probe.fixed, probe.x1, probe.epv_ops_1)
        /\ epv_as_required(probe.fixed, probe.x2, probe.epv_ops_2)

\* C15: calculate_wacc returns a WACC > 0 or reports failure: the WACC of the
\* run, when the stage returned one, is a number greater than 0.
C15_WaccPositiveOrFailure ==
    vals.wacc # None => (vals.wacc # NaN /\ Lt(Zero, vals.wacc))

\* C16: with a market cap that is absent, NaN or 0, calculate_wacc returns None
\* for every window, beta, debt and tax and interest rows, and the WACC stage of
\* the run ends it without a WACC.
C16_NoMarketCapNoWacc ==
    (isna(stock_details.market_cap) \/ stock_details.market_cap = Zero) =>
        /\ pc = "processed_data" =>
              \A num_years \in Windows, beta \in Betas :
                  calculate_wacc(StockDetails(beta, stock_details.market_cap), balance_sheet,
                                 income_statement, risk_free_rate, EQUITY_RISK_PREMIUM,
                                 num_years) = None
        /\ Len(executed) >= 4 =>
              /\ vals.wacc = None
              /\ Len(executed) = 4
              /\ pc = "returned"
              /\ result = [status |-> "None", values |-> NoVals]

\* The WACC stage has run with a market cap of 0 and no debt, where the cost of
\* equity alone would be the WACC.
C16_Witness ==
    /\ stock_details.market_cap = Zero
    /\ wacc_debt(balance_sheet) = Zero
    /\ executed = SubSeq(StageOrder, 1, 4)
    /\ vals.wacc = None
    /\ pc = "returned"

\* What C17 requires of the table of a variable for the requested number of
\* steps: an odd number of rows, the multipliers evenly spaced from 1 - range
\* to 1 + range, and the middle row the unperturbed base case.
rows_as_required(rows, requested_steps, base_value) ==
    LET n == Len(rows)
        middle == (n + 1) \div 2
    IN  /\ n % 2 = 1
        /\ n = IF requested_steps % 2 = 1 THEN requested_steps ELSE requested_steps + 1
        /\ rows[1].multiplier = Sub(One, SENSITIVITY_RANGE_PERCENT)
        /\ rows[n].multiplier = Add(One, SENSITIVITY_RANGE_PERCENT)
        /\ \A k \in 1..(n - 2) :
              Sub(rows[k + 1].multiplier, rows[k].multiplier)
                  = Sub(rows[k + 2].multiplier, rows[k + 1].multiplier)
        /\ rows[middle].multiplier = One
        /\ rows[middle].varied_value = base_value

\* C17: for every requested number of steps >= 1, run_sensitivity_analysis uses
\* an odd number of steps (steps, or steps + 1 when steps is even), multipliers
\* evenly spaced over [1 - range, 1 + range], and a middle row that is the base
\* case (multiplier 1, varied value equal to the base value).
C17_OddStepsMiddleRowIsBase ==
    (sensitivity_output.status = "returned" /\ risk_args.num_steps >= 1) =>
        /\ rows_as_required(sensitivity_output.WACC, risk_args.num_steps, vals.wacc)
        /\ rows_as_required(sensitivity_output.Avg_Op_Margin, risk_args.num_steps,
                            vals.avg_op_margin)

\* The PPE/Sales method gave no estimate on the statements of the run.
ppe_sales_method_failed ==
    calculate_maintenance_capex(income_statement, balance_sheet, cash_flow,
                                DEFAULT_NORMALIZATION_YEARS) = None

\* The cash flow statement has a depreciation row with a number in the window.
depreciation_available ==
    /\ HasRow(cash_flow, S_DEPRECIATION_CF)
    /\ DropNaN(Take(cash_flow.rows[S_DEPRECIATION_CF], DEFAULT_NORMALIZATION_YEARS)) # <<>>

\* The maintenance capex stage of the run is over.
maintenance_capex_stage_over == Len(executed) >= 2

\* The estimate is the average depreciation over the window when the method
\* failed and depreciation is available; the stage fails only when both do.
fallback_estimate_as_required ==
    maintenance_capex_stage_over =>
        /\ (ppe_sales_method_failed /\ depreciation_available) =>
              vals.maint_capex
                  = Abs(Mean(DropNaN(Take(cash_flow.rows[S_DEPRECIATION_CF],
                                          DEFAULT_NORMALIZATION_YEARS))))
        /\ (Len(executed) = 2 /\ pc = "returned") =>
              (ppe_sales_method_failed /\ ~depreciation_available)

\* C18: when the PPE/Sales method fails outright and depreciation data is
\* available, the maintenance capex of the run is the average depreciation
\* over the window and the run's values carry a mark that the fallback was
\* used; the stage fails only when the fallback is unavailable too.
C18_FallbackToDepreciationIsMarked ==
    /\ fallback_estimate_as_required
    /\ (maintenance_capex_stage_over /\ ppe_sales_method_failed /\ depreciation_available) =>
          /\ "used_fallback" \in DOMAIN vals
          /\ result.status = "valuation_results" => "used_fallback" \in DOMAIN result.values

\* The concrete scenario: revenue 1000/900/800, operating income 200/180/160,
\* tax 21 on a pretax income of 100, beta 1, market cap 5000, no debt, no cash
\* or other adjustments, risk-free rate 0.04.
concrete_scenario ==
    /\ income_statement = BaseIncomeStatement
    /\ balance_sheet = BaseBalanceSheet
    /\ stock_details = BaseStockDetails
    /\ risk_free_rate = Rat(4, 100)

\* C19: on the concrete scenario, with a window of 3 years and an equity risk
\* premium of 0.055, the chain yields avg_op_margin = 0.20, normalized_ebit =
\* 200, nopat = 158, wacc = 0.095 and epv_operations = epv_equity = 158 / 0.095,
\* which is 1663.16 to two decimals; the stages of the run yield the same.
C19_ConcreteScenarioValues ==
    concrete_scenario =>
        /\ pc = "processed_data" =>
              /\ calculate_normalized_ebit(income_statement, 3) = <<Num(200), Rat(20, 100)>>
              /\ calculate_nopat(Num(200), income_statement, 3) = Num(158)
              /\ calculate_wacc(stock_details, balance_sheet, income_statement,
                                risk_free_rate, Rat(55, 1000), 3) = Rat(95, 1000)
              /\ calculate_epv(Num(158), Rat(95, 1000), Zero) = Rat(158000, 95)
              /\ calculate_epv_equity(Rat(158000, 95), balance_sheet, stock_details)
                    = Rat(158000, 95)
              /\ Lt(Rat(1663155, 1000), Rat(158000, 95))
              /\ Lt(Rat(158000, 95), Rat(1663165, 1000))
        /\ Len(executed) >= 1 =>
              (vals.avg_op_margin = Rat(20, 100) /\ vals.normalized_ebit = Num(200))
        /\ Len(executed) >= 3 => vals.nopat = Num(158)
        /\ Len(executed) >= 4 => vals.wacc = Rat(95, 1000)
        /\ Len(executed) >= 5 => vals.epv_ops = Rat(158000, 95)
        /\ Len(executed) >= 6 => vals.epv_equity = Rat(158000, 95)

\* The run on the concrete scenario has passed the EPV equity stage.
C19_Witness ==
    /\ concrete_scenario
    /\ cash_flow = BaseCashFlow
    /\ executed = SubSeq(StageOrder, 1, 6)
    /\ vals.epv_ops # None
    /\ vals.epv_equity = vals.epv_ops

\* The years of a statement are unique and sorted in descending order.
years_unique_descending(df) ==
    \A i, j \in 1..Len(df.columns) : i < j => df.columns[i] > df.columns[j]

\* The years of the raw column labels, in the order they arrive in.
raw_years(df) == [i \in 1..Len(df.columns) |-> df.columns[i].year]

\* Two raw column labels are dates of the same year.
same_year_dates(df) ==
    Cardinality({df.columns[i].year : i \in 1..Len(df.columns)}) < Len(df.columns)

latest_term(item) ==
    IF item \in DOMAIN balance_sheet.rows
    THEN (IF balance_sheet.rows[item][1] = NaN THEN Zero ELSE balance_sheet.rows[item][1])
    ELSE Zero

\* The first of the three debt items that is present and not NaN in the latest
\* year, 0 when there is none.
latest_debt_term ==
    LET present(item) == item \in DOMAIN balance_sheet.rows /\ balance_sheet.rows[item][1] # NaN
    IN  CASE present(S_TOTAL_DEBT) -> balance_sheet.rows[S_TOTAL_DEBT][1]
          [] ~present(S_TOTAL_DEBT) /\ present(S_SHORT_LONG_TERM_DEBT) ->
                 balance_sheet.rows[S_SHORT_LONG_TERM_DEBT][1]
          [] ~present(S_TOTAL_DEBT) /\ ~present(S_SHORT_LONG_TERM_DEBT)
                 /\ present(S_LONG_TERM_DEBT) -> balance_sheet.rows[S_LONG_TERM_DEBT][1]
          [] OTHER -> Zero

epv_equity_as_required ==
    Sub(Sub(Sub(Add(Add(vals.epv_ops, latest_term(S_CASH_EQUIVALENTS)),
                    latest_term(S_SHORT_TERM_INVESTMENTS)),
                latest_debt_term),
            latest_term(S_PREFERRED_STOCK_VALUE)),
        latest_term(S_NONCONTROLLING_INTEREST))

epv_equity_called == \E k \in 1..Len(executed) : executed[k] = "calculate_epv_equity"

\* C21: once calculate_epv_equity has been called, its result is a number (not
\* None, not NaN) equal to EPV-operations + cash + short-term investments
\* - debt - preferred stock - noncontrolling interest of the latest year, with
\* 0 for every term that is absent or NaN and the first present debt item.
C21_EpvEquityBridgeTermsDefaultToZero ==
    epv_equity_called =>
        /\ ~isna(vals.epv_equity)
        /\ vals.epv_equity = epv_equity_as_required

\* The bridge ran on a balance sheet whose Total Debt is NaN in the latest year
\* (Short Long Term Debt, 500, is taken) and which has no cash, short-term
\* investments, preferred stock or noncontrolling interest row.
C21_Witness ==
    /\ epv_equity_called
    /\ S_TOTAL_DEBT \in DOMAIN balance_sheet.rows
    /\ balance_sheet.rows[S_TOTAL_DEBT][1] = NaN
    /\ DOMAIN balance_sheet.rows \cap {S_CASH_EQUIVALENTS, S_SHORT_TERM_INVESTMENTS,
                                       S_PREFERRED_STOCK_VALUE, S_NONCONTROLLING_INTEREST} = {}
    /\ vals.epv_equity = Sub(vals.epv_ops, Num(500))

\* The latest-year net tangible assets when present and not NaN, else the
\* latest-year total stockholder equity when present and not NaN, else None.
asset_value_as_required ==
    LET present(item) == item \in DOMAIN balance_sheet.rows /\ balance_sheet.rows[item][1] # NaN
    IN  CASE present(S_NET_TANGIBLE_ASSETS) -> balance_sheet.rows[S_NET_TANGIBLE_ASSETS][1]
          [] ~present(S_NET_TANGIBLE_ASSETS) /\ present(S_TOTAL_STOCKHOLDER_EQUITY) ->
                 balance_sheet.rows[S_TOTAL_STOCKHOLDER_EQUITY][1]
          [] OTHER -> None

asset_value_called ==
    \E k \in 1..Len(executed) : executed[k] = "calculate_asset_value_equity"

\* The fields of the locals of run_epv_valuation other than av_equity.
other_fields == DOMAIN NoVals \ {"av_equity"}

\* Once calculate_asset_value_equity has been called the run does not end with
\* "return None", and the result it returns carries the asset value next to
\* the numbers of the earlier stages.
asset_value_state ==
    asset_value_called =>
        /\ vals.av_equity = asset_value_as_required
        /\ result.status # "None"
        /\ result.status = "valuation_results" =>
               /\ result.values.av_equity = asset_value_as_required
               /\ \A f \in other_fields : result.values[f] = vals[f] /\ ~isna(vals[f])

\* The step that calls calculate_asset_value_equity goes on to the risk
\* analysis and leaves every other local as it was.
asset_value_step ==
    pc = "asset_value" =>
        /\ pc' = "sensitivity"
        /\ \A f \in other_fields : vals'[f] = vals[f]
        /\ vals'.av_equity = asset_value_as_required

\* C22: the asset value of equity is the latest-year net tangible assets, else
\* the latest-year total stockholder equity, else None; a None asset value
\* neither ends the run nor changes any other field of the result.
C22_AssetValueFallbackNullIsNotAnError == []asset_value_state /\ [][asset_value_step]_vars

\* A run has returned its valuation results with a None asset value.
C22_Witness ==
    /\ result.status = "valuation_results"
    /\ asset_value_called
    /\ result.values.av_equity = None
    /\ ~isna(result.values.epv_equity)

\* The rates of the years of the window whose tax provision and pretax income
\* are present and whose pretax income is > 0; no other year contributes.
RECURSIVE rates_of_profitable_years(_, _)
rates_of_profitable_years(tax_prov_row, pre_tax_inc_row) ==
    IF tax_prov_row = <<>> THEN <<>>
    ELSE LET rest == rates_of_profitable_years(Tail(tax_prov_row), Tail(pre_tax_inc_row))
         IN  IF Head(tax_prov_row) # NaN /\ Head(pre_tax_inc_row) # NaN
                /\ Lt(Zero, Head(pre_tax_inc_row))
             THEN <<Div(Head(tax_prov_row), Head(pre_tax_inc_row))>> \o rest
             ELSE rest

\* The clamped mean of those rates over the first num_years years, the default
\* rate when no year contributes.
rate_of_profitable_years(num_years) ==
    LET rates == rates_of_profitable_years(
                     Take(income_statement.rows[S_TAX_PROVISION], num_years),
                     Take(income_statement.rows[S_PRETAX_INCOME], num_years))
    IN  IF rates = <<>> THEN DEFAULT_EFFECTIVE_TAX_RATE
        ELSE PyMax(MIN_EFFECTIVE_TAX_RATE, PyMin(Mean(rates), MAX_EFFECTIVE_TAX_RATE))

nopat_computed ==
    /\ \E k \in 1..Len(executed) : executed[k] = "calculate_nopat"
    /\ vals.nopat # None

\* C23: the NOPAT of a run is the normalized EBIT times one minus the average
\* of tax_provision / pretax_income over the years with pretax income > 0 only;
\* a year with pretax income <= 0 contributes nothing to the average.
C23_OnlyProfitableYearsContribute ==
    nopat_computed =>
        vals.nopat = Mul(vals.normalized_ebit,
                         Sub(One, rate_of_profitable_years(DEFAULT_NORMALIZATION_YEARS)))

wacc_computed_with_debt ==
    /\ \E k \in 1..Len(executed) : executed[k] = "calculate_wacc"
    /\ vals.wacc # None
    /\ wacc_debt(balance_sheet) # Zero

\* C24: the tax rate calculate_wacc applied to the cost of debt equals the
\* rate calculate_nopat computes from the same income statement over the same
\* window.
C24_DebtTaxRateSameAsNopatTaxRate ==
    wacc_computed_with_debt =>
        avg_tax_rate_for_debt(income_statement, DEFAULT_WACC_NORMALIZATION_YEARS)
            = effective_tax_rate(income_statement, DEFAULT_WACC_NORMALIZATION_YEARS)

\* The years of the window (positions in the columns) in which revenue and
\* operating income are both present.
years_with_both_items ==
    {i \in 1..MinInt(DEFAULT_NORMALIZATION_YEARS, Len(income_statement.columns)) :
        /\ S_REVENUE \in DOMAIN income_statement.rows
        /\ S_OPERATING_INCOME \in DOMAIN income_statement.rows
        /\ income_statement.rows[S_REVENUE][i] # NaN
        /\ income_statement.rows[S_OPERATING_INCOME][i] # NaN}

RECURSIVE sum_of_margins(_)
sum_of_margins(years) ==
    IF years = {} THEN Zero
    ELSE LET i == CHOOSE i \in years : TRUE
         IN  Add(Div(income_statement.rows[S_OPERATING_INCOME][i],
                     income_statement.rows[S_REVENUE][i]),
                 sum_of_margins(years \ {i}))

\* The arithmetic mean of operating income / revenue over those years.
mean_margin_as_required ==
    Div(sum_of_margins(years_with_both_items), Num(Cardinality(years_with_both_items)))

normalized_ebit_must_fail ==
    \/ years_with_both_items = {}
    \/ income_statement.rows[S_REVENUE][1] = NaN

normalized_ebit_called == Len(executed) >= 1 /\ executed[1] = "calculate_normalized_ebit"

RECURSIVE valid_outcomes_of(_)
valid_outcomes_of(attempts) ==
    IF attempts = <<>> THEN <<>>
    ELSE LET rest == valid_outcomes_of(SubSeq(attempts, 1, Len(attempts) - 1))
             last == attempts[Len(attempts)].epv_equity_sim
         IN  IF last = None THEN rest ELSE Append(rest, last)

iterations_independent ==
    /\ \A k \in 1..Len(mc.attempts) :
           mc.attempts[k].epv_equity_sim =
               mc_recalculate(base_calc_inputs, income_statement, balance_sheet, stock_details,
                              risk_free_rate, mc.attempts[k].avg_op_margin, mc.attempts[k].beta)
    /\ \A j, k \in 1..Len(mc.attempts) :
           (mc.attempts[j].avg_op_margin = mc.attempts[k].avg_op_margin
                /\ mc.attempts[j].beta = mc.attempts[k].beta)
               => mc.attempts[j].epv_equity_sim = mc.attempts[k].epv_equity_sim
    /\ mc.simulated_epv_equity_values = valid_outcomes_of(mc.attempts)

\* A step of run_monte_carlo_simulation leaves the statements, the profile,
\* the risk-free rate and the base values of the valuation as they were.
inputs_read_only ==
    pc = "monte_carlo_loop" =>
        /\ income_statement' = income_statement
        /\ balance_sheet' = balance_sheet
        /\ cash_flow' = cash_flow
        /\ stock_details' = stock_details
        /\ risk_free_rate' = risk_free_rate
        /\ vals' = vals

\* C26: run_monte_carlo_simulation leaves base_inputs and processed_data
\* unchanged, and the EPV of equity of every iteration is determined by that
\* iteration's sampled values and the base inputs alone.
C26_InputsReadOnlyIterationsIndependent == []iterations_independent /\ [][inputs_read_only]_vars

\* Two iterations of one run drew different betas and produced different
\* values, and the profile still holds its own beta.
C26_Witness ==
    /\ Len(mc.attempts) >= 2
    /\ \E j, k \in 1..Len(mc.attempts) :
           /\ j < k
           /\ mc.attempts[j].beta # mc.attempts[k].beta
           /\ mc.attempts[j].epv_equity_sim # None
           /\ mc.attempts[k].epv_equity_sim # None
           /\ mc.attempts[j].epv_equity_sim # mc.attempts[k].epv_equity_sim
           /\ stock_details.beta # mc.attempts[k].beta

\* C27: in every Monte Carlo iteration the beta handed to calculate_wacc is a
\* number that is at least the floor 0.1, whether it was sampled from a normal
\* distribution, taken as the mean of another distribution or taken from the
\* profile.
C27_IterationBetaAtLeastFloor ==
    \A k \in 1..Len(mc.attempts) :
        /\ ~isna(mc.attempts[k].beta)
        /\ Le(BETA_FLOOR, mc.attempts[k].beta)

\* The WACC of the run is the cost of equity alone.
wacc_is_cost_of_equity ==
    vals.wacc = Add(risk_free_rate, Mul(wacc_beta(stock_details), EQUITY_RISK_PREMIUM))

\* EPV-operations plus cash and short-term investments, less preferred stock
\* and noncontrolling interest: the bridge with no debt subtracted.
epv_equity_without_debt ==
    Sub(Sub(Add(Add(vals.epv_ops, latest_term(S_CASH_EQUIVALENTS)),
                latest_term(S_SHORT_TERM_INVESTMENTS)),
            latest_term(S_PREFERRED_STOCK_VALUE)),
        latest_term(S_NONCONTROLLING_INTEREST))

\* C28: the debt figure calculate_wacc weighs the capital structure with is the
\* debt figure calculate_epv_equity subtracts, for the balance sheet of every
\* run; and when the WACC of a run is the zero-debt shortcut, its EPV of equity
\* has no debt subtracted.
C28_SameDebtInWaccAndEquityBridge ==
    /\ balance_sheet.columns # <<>> =>
           /\ wacc_debt(balance_sheet) = epv_equity_total_debt(balance_sheet)
           /\ wacc_debt(balance_sheet) = latest_debt_term
    /\ (epv_equity_called /\ wacc_debt(balance_sheet) = Zero) =>
           /\ wacc_is_cost_of_equity
           /\ vals.epv_equity = epv_equity_without_debt

\* A run on a balance sheet whose latest Total Debt is 0 while its Long Term
\* Debt is 250: the WACC is the cost of equity and no debt is subtracted.
C28_Witness ==
    /\ epv_equity_called
    /\ S_TOTAL_DEBT \in DOMAIN balance_sheet.rows
    /\ S_LONG_TERM_DEBT \in DOMAIN balance_sheet.rows
    /\ balance_sheet.rows[S_TOTAL_DEBT][1] = Zero
    /\ balance_sheet.rows[S_LONG_TERM_DEBT][1] = Num(250)
    /\ wacc_is_cost_of_equity
    /\ vals.epv_equity = epv_equity_without_debt

\* The rules of _validate_config on a configuration.
satisfies_rules(config) ==
    /\ config.calculation.normalization_years # NotANumber
    /\ Le(One, config.calculation.normalization_years)
    /\ config.calculation.default_effective_tax_rate # NotANumber
    /\ Le(Zero, config.calculation.default_effective_tax_rate)
    /\ Le(config.calculation.default_effective_tax_rate, One)
    /\ config.calculation.equity_risk_premium # NotANumber
    /\ Le(Zero, config.calculation.equity_risk_premium)
    /\ Le(config.calculation.equity_risk_premium, One)
    /\ config.risk.monte_carlo_iterations # NotANumber
    /\ Le(Num(100), config.risk.monte_carlo_iterations)
    /\ \A i \in 1..Len(config.risk.confidence_levels) :
           Lt(Zero, config.risk.confidence_levels[i]) /\ Lt(config.risk.confidence_levels[i], One)
    /\ config.performance.max_workers # NotANumber
    /\ Le(One, config.performance.max_workers)

\* The values the last update gave to fields of the configuration.
RECURSIVE updated_fields(_, _)
updated_fields(updates, sections) ==
    IF sections = {} THEN {}
    ELSE LET s == CHOOSE s \in sections : TRUE
             here == IF s \in DOMAIN updates /\ updates[s].is_dict
                     THEN {<<s, k>> : k \in DOMAIN updates[s].items \cap SectionFields[s]}
                     ELSE {}
         IN  here \cup updated_fields(updates, sections \ {s})

\* The last update was rejected: none of its values is held, unless it is the
\* default value of its field.
rejected_update_left_nothing ==
    (manager.last_call.called /\ manager.logged_error) =>
        /\ manager.config = create_default_config
        /\ \A f \in updated_fields(manager.last_call.updates, Sections) :
               manager.config[f[1]][f[2]] = manager.last_call.updates[f[1]].items[f[2]]
                   => manager.last_call.updates[f[1]].items[f[2]] = DefaultSections[f[1]][f[2]]

\* C29: after construction and after every call of update_config the held
\* configuration satisfies every rule of _validate_config, and a rejected
\* update leaves none of its values in it.
C29_HeldConfigurationIsValid ==
    /\ satisfies_rules(manager.config)
    /\ rejected_update_left_nothing

\* update_config was called with max_workers 0 next to a valid
\* normalization_years 7, and was rejected.
C29_Witness ==
    /\ manager.last_call.called
    /\ manager.logged_error
    /\ "performance" \in DOMAIN manager.last_call.updates
    /\ "calculation" \in DOMAIN manager.last_call.updates
    /\ manager.last_call.updates["performance"].items["max_workers"] = Zero
    /\ manager.config.performance.max_workers = Num(4)
    /\ manager.config.calculation.normalization_years = Num(5)

\* C30: a call of run_monte_carlo_simulation with num_simulations >= 1 does
\* not leave the loop through an exception of the progress report: it is in the
\* loop, or has attempted exactly num_simulations iterations and returned.
C30_ExactlyNumSimulationsIterations ==
    (mc.status # "not_started" /\ mc.num_simulations >= 1
        /\ ~(mc.avg_op_margin.present /\ mc.avg_op_margin.dist = "normal"
                /\ mc.avg_op_margin.mean = None)
        /\ ~(mc.beta.present /\ mc.beta.dist = "normal" /\ mc.beta.mean = None)) =>
        /\ mc.status \in {"in_loop", "returned"}
        /\ mc.status = "returned" =>
               mc.i = mc.num_simulations /\ Len(mc.attempts) = mc.num_simulations

====
